---- MODULE Spec2Model ----
(***************************************************************************)
(* A model of the software rendering pipeline of sistemasolar: the frame   *)
(* loop of main.rs, the transform / primitive-assembly / fragment stages   *)
(* of render and of the sky drawing of skybox.rs, and the framebuffer they *)
(* write to.                                                               *)
(*                                                                         *)
(* f32 values are modelled as exact rationals [n, d] in lowest terms with  *)
(* d >= 0; d = 0 stands for the infinities and NaN.  Rounding of f32       *)
(* arithmetic is modelled in the shader functions only, as rounding to a   *)
(* fixed grid.                                                             *)
(***************************************************************************)
EXTENDS Integers, Sequences, FiniteSets, TLC

VARIABLES
    pc,           \* position of main's frame loop
    framebuffer,  \* the Framebuffer object: colour array, depth array, colours
    entities,     \* Vec<Entity> of main
    camera,       \* the Camera of main
    temp_control, \* temperature control of the star shader
    intensity_control, \* intensity control of the star shader
    time,         \* `time` of the current loop iteration, in ticks
    view,         \* the view matrix of the current frame
    next_entity,  \* index of the next entity of the `for e in &entities` loop
    last_draw,    \* the intermediate vectors of the most recent draw call
    frame_log,    \* the framebuffer calls made in the current loop iteration
    fb_log,       \* FbSpec: the set_pixel calls made since the last clear
    t_in,         \* TransformSpec: the arguments of the call under test
    t_out,        \* TransformSpec: what transform / transform_with_basis returned
    shader_in,    \* ShaderSpec: the shader call under test, with its arguments
    shader_calls, \* ShaderSpec: the shader calls made so far, with what they returned
    camera_log    \* CameraSpec: the calls made on the camera, with the camera before and after

\* the variables of main other than the framebuffer
mainVars == <<entities, camera, temp_control, intensity_control, time, view,
              next_entity, last_draw, frame_log>>

vars == <<pc, framebuffer, mainVars, fb_log, t_in, t_out, shader_in, shader_calls,
          camera_log>>

----------------------------------------------------------------------------
(* Bounds of the model *)

\* framebuffer size in pixels (window_width x window_height, scaled down)
Width == 2
Height == 2
\* longest vertex array of the entity mesh chosen at start-up
MaxVerts == 6
\* FbSpec: most set_pixel calls followed between two clears
MaxWrites == 3
\* TransformSpec: vertex coordinates range over -MaxCoord..MaxCoord
MaxCoord == 2
\* Spec: the frame loop is followed until `time` reaches MaxTime ticks
MaxTime == 2

\* stands for u32::MAX, the saturation value of an `as u32` cast (the largest
\* integer the checker holds; every framebuffer size is far below it)
U32Max == 2147483647
\* `let length = 25` of draw_shooting_star
ShootLength == 25

----------------------------------------------------------------------------
(* f32 as exact rationals *)

Abs(i) == IF i < 0 THEN -i ELSE i

\* Op applied to the value of x, with x evaluated once (a `let` binding)
With(x, Op(_)) == CHOOSE r \in {Op(v) : v \in {x}} : TRUE

RECURSIVE Gcd(_, _)
Gcd(a, b) == IF b = 0 THEN a ELSE Gcd(b, a % b)

\* the rational n/d in lowest terms; 1/0 is +infinity, -1/0 is -infinity and
\* 0/0 is NaN, which every comparison below answers with FALSE, as f32 does
Q(n, d) ==
    LET s == IF d < 0 THEN -1 ELSE 1
        g == IF n = 0 /\ d = 0 THEN 1 ELSE Gcd(Abs(n), Abs(d))
    IN  [n |-> (s * n) \div g, d |-> (s * d) \div g]

I(i) == [n |-> i, d |-> 1]
Inf == [n |-> 1, d |-> 0]

QAdd(a, b) == Q(a.n * b.d + b.n * a.d, a.d * b.d)
QSub(a, b) == Q(a.n * b.d - b.n * a.d, a.d * b.d)
QMul(a, b) == Q(a.n * b.n, a.d * b.d)
QDiv(a, b) == Q(a.n * b.d, a.d * b.n)
QNeg(a) == [n |-> -a.n, d |-> a.d]
QLt(a, b) == a.n * b.d < b.n * a.d
QLe(a, b) == a.n * b.d <= b.n * a.d
QMin(a, b) == IF QLt(b, a) THEN b ELSE a
QMax(a, b) == IF QLt(a, b) THEN b ELSE a
QFloor(a) == a.n \div a.d
QCeil(a) == -((-a.n) \div a.d)

\* `v as u32`: truncation toward zero, saturating at 0 and at u32::MAX
AsU32(a) ==
    IF a.d = 0 THEN (IF a.n > 0 THEN U32Max ELSE 0)
    ELSE IF a.n < 0 THEN 0
    ELSE IF a.n \div a.d > U32Max THEN U32Max
    ELSE a.n \div a.d

\* `v as i32`: truncation toward zero, NaN to 0, saturating (the i32 bounds
\* are those of the checker's integers)
AsI32(a) ==
    IF a.d = 0 THEN (IF a.n > 0 THEN U32Max ELSE IF a.n < 0 THEN -U32Max ELSE 0)
    ELSE IF a.n < 0 THEN -((-a.n) \div a.d) ELSE a.n \div a.d

----------------------------------------------------------------------------
(* Vector3, Vector4 and Matrix (raylib: m0..m3 is the first column) *)

Vector3(x, y, z) == [x |-> x, y |-> y, z |-> z]
Vector4(x, y, z, w) == [x |-> x, y |-> y, z |-> z, w |-> w]
V3(x, y, z) == Vector3(I(x), I(y), I(z))

V3Scale(v, s) == Vector3(QMul(v.x, s), QMul(v.y, s), QMul(v.z, s))

Dot4(a0, a1, a2, a3, v) ==
    QAdd(QAdd(QMul(a0, v.x), QMul(a1, v.y)), QAdd(QMul(a2, v.z), QMul(a3, v.w)))

multiply_matrix_vector4(m, v) ==
    With(<<m, v>>, LAMBDA a :
        LET row(r) == Dot4(a[1][r], a[1][r + 4], a[1][r + 8], a[1][r + 12], a[2])
        IN  Vector4(row(0), row(1), row(2), row(3)))

multiply_matrix_matrix(a, b) ==
    With(<<a, b>>, LAMBDA ab :
        [k \in 0..15 |->
            LET r == k % 4
                c == k \div 4
            IN  Dot4(ab[1][r], ab[1][r + 4], ab[1][r + 8], ab[1][r + 12],
                     Vector4(ab[2][4 * c], ab[2][4 * c + 1],
                             ab[2][4 * c + 2], ab[2][4 * c + 3]))])

\* a matrix from its four columns, each a 4-tuple of rationals
MatrixOfColumns(c0, c1, c2, c3) ==
    [k \in 0..15 |->
        LET col == IF k < 4 THEN c0 ELSE IF k < 8 THEN c1 ELSE IF k < 12 THEN c2 ELSE c3
        IN  col[(k % 4) + 1]]

Identity4 ==
    MatrixOfColumns(<<I(1), I(0), I(0), I(0)>>, <<I(0), I(1), I(0), I(0)>>,
                    <<I(0), I(0), I(1), I(0)>>, <<I(0), I(0), I(0), I(1)>>)

----------------------------------------------------------------------------
(* matrix.rs: the matrices of the transform pipeline.  Angles are counted  *)
(* in quarter turns, where sine and cosine are exact.                       *)

Cos4(k) == CASE k % 4 = 0 -> I(1) [] k % 4 = 2 -> I(-1) [] OTHER -> I(0)
Sin4(k) == CASE k % 4 = 1 -> I(1) [] k % 4 = 3 -> I(-1) [] OTHER -> I(0)

RotationX(k) ==
    MatrixOfColumns(<<I(1), I(0), I(0), I(0)>>, <<I(0), Cos4(k), Sin4(k), I(0)>>,
                    <<I(0), QNeg(Sin4(k)), Cos4(k), I(0)>>, <<I(0), I(0), I(0), I(1)>>)
RotationY(k) ==
    MatrixOfColumns(<<Cos4(k), I(0), QNeg(Sin4(k)), I(0)>>, <<I(0), I(1), I(0), I(0)>>,
                    <<Sin4(k), I(0), Cos4(k), I(0)>>, <<I(0), I(0), I(0), I(1)>>)
RotationZ(k) ==
    MatrixOfColumns(<<Cos4(k), Sin4(k), I(0), I(0)>>, <<QNeg(Sin4(k)), Cos4(k), I(0), I(0)>>,
                    <<I(0), I(0), I(1), I(0)>>, <<I(0), I(0), I(0), I(1)>>)

\* translation * (pitch(X) -> yaw(Y) -> roll(Z)) * uniform scale
create_model_matrix(translation, scale, rotation) ==
    LET t == MatrixOfColumns(<<I(1), I(0), I(0), I(0)>>, <<I(0), I(1), I(0), I(0)>>,
                             <<I(0), I(0), I(1), I(0)>>,
                             <<translation.x, translation.y, translation.z, I(1)>>)
        s == MatrixOfColumns(<<scale, I(0), I(0), I(0)>>, <<I(0), scale, I(0), I(0)>>,
                             <<I(0), I(0), scale, I(0)>>, <<I(0), I(0), I(0), I(1)>>)
        r == multiply_matrix_matrix(
                 multiply_matrix_matrix(RotationX(rotation.x), RotationY(rotation.y)),
                 RotationZ(rotation.z))
    IN  multiply_matrix_matrix(t, multiply_matrix_matrix(r, s))

\* perspective projection; f stands for cot(fov_y / 2)
create_projection_matrix(f, aspect, near, far) ==
    MatrixOfColumns(<<QDiv(f, aspect), I(0), I(0), I(0)>>,
                    <<I(0), f, I(0), I(0)>>,
                    <<I(0), I(0), QDiv(QAdd(far, near), QSub(near, far)), I(-1)>>,
                    <<I(0), I(0),
                      QDiv(QMul(I(2), QMul(far, near)), QSub(near, far)), I(0)>>)

\* [-1,1]^2 -> [x, x+w] x [y, y+h] with the Y axis flipped
create_viewport_matrix(x, y, w, h) ==
    MatrixOfColumns(<<QDiv(w, I(2)), I(0), I(0), I(0)>>,
                    <<I(0), QNeg(QDiv(h, I(2))), I(0), I(0)>>,
                    <<I(0), I(0), Q(1, 2), I(0)>>,
                    <<QAdd(x, QDiv(w, I(2))), QAdd(y, QDiv(h, I(2))), Q(1, 2), I(1)>>)

----------------------------------------------------------------------------
(* main.rs: transform and transform_with_basis *)

None == [some |-> FALSE]
Some(v) == [some |-> TRUE, v |-> v]

\* mutant: vertices beyond the far plane are rejected too
transform_trace_far_reject(vertex, translation, scale, rotation, view_m, projection, viewport) ==
    LET model == create_model_matrix(translation, scale, rotation)
        vertex4 == Vector4(vertex.x, vertex.y, vertex.z, I(1))
        world_transform == multiply_matrix_vector4(model, vertex4)
        view_transform == multiply_matrix_vector4(view_m, world_transform)
    IN  With(multiply_matrix_vector4(projection, view_transform),
             LAMBDA projection_transform :
        IF QLe(projection_transform.w, I(0))
        THEN [ret |-> None, divided |-> FALSE]
        ELSE With(QDiv(I(1), projection_transform.w), LAMBDA inv_w :
             With(Vector4(QMul(projection_transform.x, inv_w),
                          QMul(projection_transform.y, inv_w),
                          QMul(projection_transform.z, inv_w),
                          I(1)), LAMBDA ndc :
                 IF \/ QLt(ndc.x, I(-1)) \/ QLt(I(1), ndc.x)
                    \/ QLt(ndc.y, I(-1)) \/ QLt(I(1), ndc.y)
                    \/ QLt(ndc.z, I(-1)) \/ QLt(I(1), ndc.z)
                 THEN [ret |-> None, divided |-> TRUE]
                 ELSE LET screen == multiply_matrix_vector4(viewport, ndc)
                      IN  With(screen, LAMBDA sc :
                              [ret |-> Some(Vector3(sc.x, sc.y, ndc.z)),
                               divided |-> TRUE]))))

\* mutant: the depth carried forward is the z the viewport matrix produced
transform_trace_viewport_z(vertex, translation, scale, rotation, view_m, projection, viewport) ==
    LET model == create_model_matrix(translation, scale, rotation)
        vertex4 == Vector4(vertex.x, vertex.y, vertex.z, I(1))
        world_transform == multiply_matrix_vector4(model, vertex4)
        view_transform == multiply_matrix_vector4(view_m, world_transform)
    IN  With(multiply_matrix_vector4(projection, view_transform),
             LAMBDA projection_transform :
        IF QLe(projection_transform.w, I(0))
        THEN [ret |-> None, divided |-> FALSE]
        ELSE With(QDiv(I(1), projection_transform.w), LAMBDA inv_w :
             With(Vector4(QMul(projection_transform.x, inv_w),
                          QMul(projection_transform.y, inv_w),
                          QMul(projection_transform.z, inv_w),
                          I(1)), LAMBDA ndc :
                 IF \/ QLt(ndc.x, I(-1)) \/ QLt(I(1), ndc.x)
                    \/ QLt(ndc.y, I(-1)) \/ QLt(I(1), ndc.y)
                    \/ QLt(ndc.z, I(-1))
                 THEN [ret |-> None, divided |-> TRUE]
                 ELSE LET screen == multiply_matrix_vector4(viewport, ndc)
                      IN  With(screen, LAMBDA sc :
                              [ret |-> Some(Vector3(sc.x, sc.y, sc.z)),
                               divided |-> TRUE]))))

\* main.rs 32-70.  `divided` records whether 1.0 / w was evaluated.
transform_trace(vertex, translation, scale, rotation, view_m, projection, viewport) ==
    LET model == create_model_matrix(translation, scale, rotation)
        vertex4 == Vector4(vertex.x, vertex.y, vertex.z, I(1))
        world_transform == multiply_matrix_vector4(model, vertex4)
        view_transform == multiply_matrix_vector4(view_m, world_transform)
    IN  With(multiply_matrix_vector4(projection, view_transform),
             LAMBDA projection_transform :
        IF QLe(projection_transform.w, I(0))
        THEN [ret |-> None, divided |-> FALSE]
        ELSE With(QDiv(I(1), projection_transform.w), LAMBDA inv_w :
             With(Vector4(QMul(projection_transform.x, inv_w),
                          QMul(projection_transform.y, inv_w),
                          QMul(projection_transform.z, inv_w),
                          I(1)), LAMBDA ndc :
                 IF \/ QLt(ndc.x, I(-1)) \/ QLt(I(1), ndc.x)
                    \/ QLt(ndc.y, I(-1)) \/ QLt(I(1), ndc.y)
                    \/ QLt(ndc.z, I(-1))
                 THEN [ret |-> None, divided |-> TRUE]
                 ELSE LET screen == multiply_matrix_vector4(viewport, ndc)
                      IN  With(screen, LAMBDA sc :
                              [ret |-> Some(Vector3(sc.x, sc.y, ndc.z)),
                               divided |-> TRUE]))))

transform(vertex, translation, scale, rotation, view_m, projection, viewport) ==
    transform_trace(vertex, translation, scale, rotation, view_m, projection, viewport).ret

\* mutant: a vertex with w = 0 passes the first test
transform_with_basis_trace_w_zero(vertex, translation, scale, right, up, forward, view_m, projection, viewport) ==
    LET sx == scale
        r == V3Scale(right, sx)
        u == V3Scale(up, sx)
        f == V3Scale(forward, sx)
        model == MatrixOfColumns(<<r.x, r.y, r.z, I(0)>>, <<u.x, u.y, u.z, I(0)>>,
                                 <<f.x, f.y, f.z, I(0)>>,
                                 <<translation.x, translation.y, translation.z, I(1)>>)
        vertex4 == Vector4(vertex.x, vertex.y, vertex.z, I(1))
        world_transform == multiply_matrix_vector4(model, vertex4)
        view_transform == multiply_matrix_vector4(view_m, world_transform)
    IN  With(multiply_matrix_vector4(projection, view_transform),
             LAMBDA projection_transform :
        IF QLt(projection_transform.w, I(0))
        THEN [ret |-> None, divided |-> FALSE]
        ELSE With(QDiv(I(1), projection_transform.w), LAMBDA inv_w :
             With(Vector4(QMul(projection_transform.x, inv_w),
                          QMul(projection_transform.y, inv_w),
                          QMul(projection_transform.z, inv_w),
                          I(1)), LAMBDA ndc :
                 IF \/ QLt(ndc.x, I(-1)) \/ QLt(I(1), ndc.x)
                    \/ QLt(ndc.y, I(-1)) \/ QLt(I(1), ndc.y)
                    \/ QLt(ndc.z, I(-1))
                 THEN [ret |-> None, divided |-> TRUE]
                 ELSE LET screen == multiply_matrix_vector4(viewport, ndc)
                      IN  With(screen, LAMBDA sc :
                              [ret |-> Some(Vector3(sc.x, sc.y, ndc.z)),
                               divided |-> TRUE]))))

\* mutant: the basis vectors go into the model matrix without the scale
transform_with_basis_trace_unscaled(vertex, translation, scale, right, up, forward, view_m, projection, viewport) ==
    LET r == right
        u == up
        f == forward
        model == MatrixOfColumns(<<r.x, r.y, r.z, I(0)>>, <<u.x, u.y, u.z, I(0)>>,
                                 <<f.x, f.y, f.z, I(0)>>,
                                 <<translation.x, translation.y, translation.z, I(1)>>)
        vertex4 == Vector4(vertex.x, vertex.y, vertex.z, I(1))
        world_transform == multiply_matrix_vector4(model, vertex4)
        view_transform == multiply_matrix_vector4(view_m, world_transform)
    IN  With(multiply_matrix_vector4(projection, view_transform),
             LAMBDA projection_transform :
        IF QLe(projection_transform.w, I(0))
        THEN [ret |-> None, divided |-> FALSE]
        ELSE With(QDiv(I(1), projection_transform.w), LAMBDA inv_w :
             With(Vector4(QMul(projection_transform.x, inv_w),
                          QMul(projection_transform.y, inv_w),
                          QMul(projection_transform.z, inv_w),
                          I(1)), LAMBDA ndc :
                 IF \/ QLt(ndc.x, I(-1)) \/ QLt(I(1), ndc.x)
                    \/ QLt(ndc.y, I(-1)) \/ QLt(I(1), ndc.y)
                    \/ QLt(ndc.z, I(-1))
                 THEN [ret |-> None, divided |-> TRUE]
                 ELSE LET screen == multiply_matrix_vector4(viewport, ndc)
                      IN  With(screen, LAMBDA sc :
                              [ret |-> Some(Vector3(sc.x, sc.y, ndc.z)),
                               divided |-> TRUE]))))

\* main.rs 72-125.  `divided` records whether 1.0 / w was evaluated.
transform_with_basis_trace(vertex, translation, scale, right, up, forward, view_m, projection, viewport) ==
    LET sx == scale
        r == V3Scale(right, sx)
        u == V3Scale(up, sx)
        f == V3Scale(forward, sx)
        model == MatrixOfColumns(<<r.x, r.y, r.z, I(0)>>, <<u.x, u.y, u.z, I(0)>>,
                                 <<f.x, f.y, f.z, I(0)>>,
                                 <<translation.x, translation.y, translation.z, I(1)>>)
        vertex4 == Vector4(vertex.x, vertex.y, vertex.z, I(1))
        world_transform == multiply_matrix_vector4(model, vertex4)
        view_transform == multiply_matrix_vector4(view_m, world_transform)
    IN  With(multiply_matrix_vector4(projection, view_transform),
             LAMBDA projection_transform :
        IF QLe(projection_transform.w, I(0))
        THEN [ret |-> None, divided |-> FALSE]
        ELSE With(QDiv(I(1), projection_transform.w), LAMBDA inv_w :
             With(Vector4(QMul(projection_transform.x, inv_w),
                          QMul(projection_transform.y, inv_w),
                          QMul(projection_transform.z, inv_w),
                          I(1)), LAMBDA ndc :
                 IF \/ QLt(ndc.x, I(-1)) \/ QLt(I(1), ndc.x)
                    \/ QLt(ndc.y, I(-1)) \/ QLt(I(1), ndc.y)
                    \/ QLt(ndc.z, I(-1))
                 THEN [ret |-> None, divided |-> TRUE]
                 ELSE LET screen == multiply_matrix_vector4(viewport, ndc)
                      IN  With(screen, LAMBDA sc :
                              [ret |-> Some(Vector3(sc.x, sc.y, ndc.z)),
                               divided |-> TRUE]))))

transform_with_basis(vertex, translation, scale, right, up, forward, view_m, projection, viewport) ==
    transform_with_basis_trace(vertex, translation, scale, right, up, forward,
                               view_m, projection, viewport).ret

----------------------------------------------------------------------------
(* framebuffer.rs: the Framebuffer object *)

Color(r, g, b, a) == [r |-> r, g |-> g, b |-> b, a |-> a]
BLACK == Color(0, 0, 0, 255)
\* main.rs 223
Background == Color(4, 12, 36, 255)

\* the "far" value every depth cell is reset to
Far == Inf

Pixels(w, h) == (0..(w - 1)) \X (0..(h - 1))

\* `tie_accepts` is the policy of the depth test for equal depths, which the
\* framebuffer fixes one way or the other; `calls` is a ghost field, the
\* arguments of the set_pixel calls made since the last clear
Framebuffer_new(w, h, background, tie_accepts) ==
    [width |-> w, height |-> h,
     color |-> [p \in Pixels(w, h) |-> background],
     depth |-> [p \in Pixels(w, h) |-> Far],
     background_color |-> background,
     current_color |-> Color(255, 255, 255, 255),
     tie_accepts |-> tie_accepts,
     calls |-> <<>>]

set_background_color(fb, c) == [fb EXCEPT !.background_color = c]

set_current_color(fb, c) == [fb EXCEPT !.current_color = c]

clear(fb) ==
    [fb EXCEPT !.color = [p \in DOMAIN fb.color |-> fb.background_color],
               !.depth = [p \in DOMAIN fb.depth |-> Far],
               !.calls = <<>>]

\* the depth test of set_pixel
Nearer(fb, depth, stored) ==
    \/ QLt(depth, stored)
    \/ fb.tie_accepts /\ depth = stored

\* x and y are u32
set_pixel(fb, x, y, depth) ==
    With([fb EXCEPT !.calls = Append(@, [x |-> x, y |-> y, depth |-> depth])],
         LAMBDA called :
        IF x < fb.width /\ y < fb.height
        THEN IF Nearer(fb, depth, fb.depth[<<x, y>>])
             THEN [called EXCEPT !.color[<<x, y>>] = fb.current_color,
                                 !.depth[<<x, y>>] = depth]
             ELSE called
        ELSE called)

----------------------------------------------------------------------------
(* The four places that write pixels, one loop iteration each *)

\* fragment.rs: position is the pixel as two f32, depth the interpolated ndc z;
\* a fragment of render carries the interpolated object-space position, a
\* fragment of the sky sphere the interpolated colour
Fragment(px, py, depth, obj_position) ==
    [position |-> [x |-> px, y |-> py, z |-> depth], depth |-> depth,
     obj_position |-> obj_position]
SkyFragment(px, py, depth, color) ==
    [position |-> [x |-> px, y |-> py], depth |-> depth, color |-> color]

\* mutant: the colour is set after the pixel is written
render_fragment_color_late(fb, fragment, out) ==
    set_current_color(
        set_pixel(fb, AsU32(fragment.position.x), AsU32(fragment.position.y),
                  fragment.depth),
        out)

\* mutant: the coordinates are clamped into the framebuffer instead of passed on
render_fragment_clamped(fb, fragment, out) ==
    LET cx == IF AsU32(fragment.position.x) >= fb.width
              THEN fb.width - 1 ELSE AsU32(fragment.position.x)
        cy == IF AsU32(fragment.position.y) >= fb.height
              THEN fb.height - 1 ELSE AsU32(fragment.position.y)
    IN  set_pixel(set_current_color(fb, out), cx, cy, fragment.depth)

\* main.rs 196-205, `out` being vec3_to_color(fragment_shader(..))
render_fragment(fb, fragment, out) ==
    set_pixel(set_current_color(fb, out),
              AsU32(fragment.position.x), AsU32(fragment.position.y),
              fragment.depth)

\* mutant: the sky is written at the far plane instead of the fragment's depth
sky_fragment_at_far_plane(fb, fragment, col) ==
    set_pixel(set_current_color(fb, col),
              AsU32(fragment.position.x), AsU32(fragment.position.y),
              I(1))

\* skybox.rs 210-217, `col` being vec3_to_color(fragment.color)
sky_fragment(fb, fragment, col) ==
    set_pixel(set_current_color(fb, col),
              AsU32(fragment.position.x), AsU32(fragment.position.y),
              fragment.depth)

\* `v as u8`: truncation toward zero, saturating at 0 and 255
AsU8(a) ==
    IF a.d = 0 THEN (IF a.n > 0 THEN 255 ELSE 0)
    ELSE IF a.n < 0 THEN 0 ELSE IF a.n \div a.d > 255 THEN 255 ELSE a.n \div a.d

\* mutant: the star's colour is set once the pixel is written
star_pixel_color_late(fb, screen, bright, dx, dy) ==
    LET sx == AsI32(screen.x)
        sy == AsI32(screen.y)
        depth == QSub(screen.z, Q(1, 1000))
        intensity == AsU8(QMin(QMul(bright, I(255)), I(255)))
        x == sx + dx
        y == sy + dy
    IN  IF x < 0 \/ x >= fb.width \/ y < 0 \/ y >= fb.height
        THEN fb
        ELSE set_current_color(set_pixel(fb, x, y, depth),
                               Color(intensity, intensity, 255, 255))

\* skybox.rs 242-271: the pixel at offset (dx, dy) of the block around the
\* star that transform placed at `screen`
star_pixel(fb, screen, bright, dx, dy) ==
    LET sx == AsI32(screen.x)
        sy == AsI32(screen.y)
        depth == QSub(screen.z, Q(1, 1000))
        intensity == AsU8(QMin(QMul(bright, I(255)), I(255)))
        x == sx + dx
        y == sy + dy
    IN  IF x < 0 \/ x >= fb.width \/ y < 0 \/ y >= fb.height
        THEN fb
        ELSE set_pixel(set_current_color(fb, Color(intensity, intensity, 255, 255)),
                       x, y, depth)

\* mutant: the trail's colour is set once the pixel is written
shooting_pixel_color_late(fb, start, dir, i, width, height) ==
    LET length == ShootLength
        t == Q(i, length)
        px == QAdd(start.x, QMul(dir.x, I(i)))
        py == QAdd(start.y, QMul(dir.y, I(i)))
    IN  IF QLt(px, I(0)) \/ QLe(I(width), px) \/ QLt(py, I(0)) \/ QLe(I(height), py)
        THEN fb
        ELSE LET alpha == QMul(QSub(I(1), t), QSub(I(1), t))
                 brightness == QAdd(I(200), QMul(I(55), alpha))
                 col == Color(AsU8(brightness), AsU8(brightness), 255, 255)
             IN  set_current_color(set_pixel(fb, AsU32(px), AsU32(py), Q(4, 5)), col)

\* skybox.rs 82-95: pixel i of the trail
shooting_pixel(fb, start, dir, i, width, height) ==
    LET length == ShootLength
        t == Q(i, length)
        px == QAdd(start.x, QMul(dir.x, I(i)))
        py == QAdd(start.y, QMul(dir.y, I(i)))
    IN  IF QLt(px, I(0)) \/ QLe(I(width), px) \/ QLt(py, I(0)) \/ QLe(I(height), py)
        THEN fb
        ELSE LET alpha == QMul(QSub(I(1), t), QSub(I(1), t))
                 brightness == QAdd(I(200), QMul(I(55), alpha))
                 col == Color(AsU8(brightness), AsU8(brightness), 255, 255)
             IN  set_pixel(set_current_color(fb, col), AsU32(px), AsU32(py), Q(4, 5))

----------------------------------------------------------------------------
(* main.rs 222-223: the framebuffer main constructs *)

\* mutant: the background colour is never configured
main_framebuffer_unconfigured(tie_accepts) ==
    Framebuffer_new(Width, Height, BLACK, tie_accepts)

main_framebuffer(tie_accepts) ==
    set_background_color(Framebuffer_new(Width, Height, BLACK, tie_accepts), Background)

\* the cell of pixel (x, y), or NoCell outside the arrays
NoCell == [color |-> BLACK, depth |-> Far]
Cell(fb, x, y) ==
    IF x >= 0 /\ x < fb.width /\ y >= 0 /\ y < fb.height
    THEN [color |-> fb.color[<<x, y>>], depth |-> fb.depth[<<x, y>>]]
    ELSE NoCell

\* what one set_pixel(x, y, depth) call with current colour `color` was seen
\* to do: the cell before and after, and whether any cell changed
Observed(x, y, depth, color, before, after) ==
    [x |-> x, y |-> y, depth |-> depth, color |-> color,
     pre |-> Cell(before, x, y), post |-> Cell(after, x, y),
     changed |-> (before.color /= after.color \/ before.depth /= after.depth)]

----------------------------------------------------------------------------
(* FbSpec: the framebuffer under any sequence of the pixel writes of a     *)
(* frame, in any order, between clears                                     *)

\* values the variables of the other specifications rest at
IdleMain ==
    /\ entities = <<>>
    /\ camera = [kind |-> "none"]
    /\ temp_control = Q(1, 10)
    /\ intensity_control = Q(1, 2)
    /\ time = 0
    /\ view = Identity4
    /\ next_entity = 0
    /\ last_draw = [kind |-> "none"]
    /\ frame_log = <<>>
IdleTransform == t_in = [fn |-> "none"] /\ t_out = [fn |-> "none"]
IdleFb == fb_log = <<>>
IdleShader == shader_in = [fn |-> "none"] /\ shader_calls = <<>>
IdleCamera == camera_log = <<>>

\* fragments tried: every depth and colour at two pixels of the framebuffer,
\* and one fragment each in the first column outside it, in the first row
\* outside it and at a negative coordinate
ProbeDepths == {I(0), Q(1, 2), Q(3, 2)}
Palette == {Color(255, 255, 255, 255), Color(153, 153, 255, 255)}
InsidePositions == {<<0, 0>>, <<Width - 1, Height - 1>>}
OutsidePositions == {<<Width, 0>>, <<0, Height>>, <<-1, 0>>}
ProbeFragments ==
    {[pos |-> p, depth |-> d, color |-> c] :
        p \in InsidePositions, d \in ProbeDepths, c \in Palette}
    \cup {[pos |-> p, depth |-> Q(1, 2), color |-> Color(255, 255, 255, 255)] :
        p \in OutsidePositions}

FbInit ==
    /\ pc = "fb_new"
    /\ \E tie \in BOOLEAN : framebuffer = main_framebuffer(tie)
    /\ IdleFb /\ IdleMain /\ IdleTransform /\ IdleShader /\ IdleCamera

\* main.rs 259.  pc tells a frame that follows the construction or an
\* undrawn frame from one whose clear wiped drawn pixels.
FbClear ==
    /\ pc' = IF \E i \in 1..Len(fb_log) : fb_log[i].changed
             THEN "fb_frame_after_drawing" ELSE "fb_frame"
    /\ framebuffer' = clear(framebuffer)
    /\ fb_log' = <<>>
    /\ UNCHANGED <<shader_in, shader_calls, camera_log, mainVars, t_in, t_out>>

FbCanWrite == pc /= "fb_new" /\ Len(fb_log) < MaxWrites

FbWritten(x, y, depth, color) ==
    /\ fb_log' = Append(fb_log, Observed(x, y, depth, color, framebuffer, framebuffer'))
    /\ UNCHANGED <<shader_in, shader_calls, camera_log, pc, mainVars, t_in, t_out>>

\* one iteration of the fragment loop of render
FbRenderWrite ==
    /\ FbCanWrite
    /\ \E f \in ProbeFragments :
          LET fragment == Fragment(I(f.pos[1]), I(f.pos[2]), f.depth, V3(0, 0, 0))
          IN  /\ framebuffer' = render_fragment(framebuffer, fragment, f.color)
              /\ FbWritten(AsU32(I(f.pos[1])), AsU32(I(f.pos[2])), f.depth, f.color)

\* one iteration of the fragment loop of draw_sky_sphere
FbSkyWrite ==
    /\ FbCanWrite
    /\ \E f \in ProbeFragments :
          LET fragment == SkyFragment(I(f.pos[1]), I(f.pos[2]), f.depth, V3(0, 0, 0))
          IN  /\ framebuffer' = sky_fragment(framebuffer, fragment, f.color)
              /\ FbWritten(AsU32(I(f.pos[1])), AsU32(I(f.pos[2])), f.depth, f.color)

\* one iteration of the inner loop of draw_sky_stars that reaches set_pixel
FbStarWrite ==
    /\ FbCanWrite
    /\ \E pos \in InsidePositions \cup OutsidePositions,
          bright \in {Q(3, 5), I(1)}, dx \in {0}, dy \in {-1, 0} :
          LET screen == Vector3(I(pos[1]), I(pos[2] + 1), Q(501, 1000))
              x == pos[1] + dx
              y == pos[2] + 1 + dy
              c == IF bright = I(1) THEN 255 ELSE 153
          IN  /\ x >= 0 /\ x < Width /\ y >= 0 /\ y < Height
              /\ framebuffer' = star_pixel(framebuffer, screen, bright, dx, dy)
              /\ FbWritten(x, y, Q(1, 2), Color(c, c, 255, 255))

\* the first iteration of the loop of draw_shooting_star, when it reaches set_pixel
FbShootingWrite ==
    /\ FbCanWrite
    /\ \E pos \in InsidePositions \cup OutsidePositions :
          LET start == [x |-> I(pos[1]), y |-> I(pos[2])]
              dir == [x |-> I(1), y |-> I(0)]
          IN  /\ pos[1] >= 0 /\ pos[1] < Width /\ pos[2] >= 0 /\ pos[2] < Height
              /\ framebuffer' = shooting_pixel(framebuffer, start, dir, 0, Width, Height)
              /\ FbWritten(pos[1], pos[2], Q(4, 5), Color(255, 255, 255, 255))

FbNext == FbClear \/ FbRenderWrite \/ FbSkyWrite \/ FbStarWrite \/ FbShootingWrite

FbSpec == FbInit /\ [][FbNext]_vars

----------------------------------------------------------------------------
(* Claims on the framebuffer, checked under FbSpec *)

InArrays(e) == e.x < Width /\ e.y < Height
SamePixel(a, b) == a.x = b.x /\ a.y = b.y
LogIndices == 1..Len(fb_log)
\* the calls of the log that address pixel p
CallsAt(p) == {i \in LogIndices : fb_log[i].x = p[1] /\ fb_log[i].y = p[2]}
QMinOf(S) == CHOOSE m \in S : \A o \in S : QLe(m, o)
Sent(e) == [color |-> e.color, depth |-> e.depth]

C2_DepthIsMinimum ==
    /\ \A p \in Pixels(Width, Height) :
          framebuffer.depth[p] = QMinOf({Far} \cup {fb_log[i].depth : i \in CallsAt(p)})
    /\ \A i \in LogIndices :
          InArrays(fb_log[i]) => QLe(fb_log[i].post.depth, fb_log[i].pre.depth)

C2_Witness ==
    \E p \in Pixels(Width, Height) :
        /\ Cardinality({fb_log[i].depth : i \in CallsAt(p)}) = 3
        /\ \E i \in CallsAt(p) : ~fb_log[i].changed
        /\ framebuffer.depth[p] = I(0)

\* no two calls of the log write the same depth to the same pixel
NoTies ==
    \A i, j \in LogIndices :
        (i /= j /\ SamePixel(fb_log[i], fb_log[j])) => fb_log[i].depth /= fb_log[j].depth

\* what the set of fragments written decides for pixel p, whatever their order
Resolved(p) ==
    IF CallsAt(p) = {}
    THEN [color |-> Background, depth |-> Far]
    ELSE LET m == CHOOSE i \in CallsAt(p) :
                      \A j \in CallsAt(p) : QLe(fb_log[i].depth, fb_log[j].depth)
         IN  Sent(fb_log[m])

\* C3: after a clear and any sequence of fragments without two equal depths on
\* one pixel, both arrays are what the set of fragments decides, so every
\* order of submission gives the same arrays.
C3_OrderIndependent ==
    (pc /= "fb_new" /\ NoTies) =>
        \A p \in Pixels(Width, Height) : Cell(framebuffer, p[1], p[2]) = Resolved(p)

\* the nearest fragment of a pixel came first, in the middle or last
C3_Witness ==
    /\ NoTies /\ Len(fb_log) = 3
    /\ InArrays(fb_log[1]) /\ SamePixel(fb_log[1], fb_log[2]) /\ SamePixel(fb_log[2], fb_log[3])
    /\ QLt(fb_log[2].depth, fb_log[1].depth) /\ QLt(fb_log[2].depth, fb_log[3].depth)
    /\ fb_log[2].color /= fb_log[3].color

\* C5: right after clear every colour cell is the background colour main
\* configured and every depth cell is the far value, whatever was drawn
\* before; so the first write of a frame to a pixel of the framebuffer with a
\* depth below the far value is accepted.
C5_ClearResets ==
    /\ (pc /= "fb_new" /\ fb_log = <<>>) =>
          \A p \in Pixels(Width, Height) :
              Cell(framebuffer, p[1], p[2]) = [color |-> Background, depth |-> Far]
    /\ \A i \in LogIndices :
          LET e == fb_log[i]
          IN  (/\ InArrays(e) /\ QLt(e.depth, Far)
               /\ \A j \in 1..(i - 1) : ~SamePixel(fb_log[j], e))
              => (e.post = Sent(e) /\ e.pre = [color |-> Background, depth |-> Far])

\* a frame whose clear wiped drawn pixels, and a first write in it
C5_Witness ==
    /\ pc = "fb_frame_after_drawing"
    /\ Len(fb_log) = 2
    /\ InArrays(fb_log[1]) /\ InArrays(fb_log[2]) /\ ~SamePixel(fb_log[1], fb_log[2])
    /\ fb_log[2].changed

\* C6: set_pixel with x >= width or y >= height changes no colour cell and no
\* depth cell.
C6_OutOfRangeDropped ==
    \A i \in LogIndices :
        (fb_log[i].x >= Width \/ fb_log[i].y >= Height) => ~fb_log[i].changed

C6_Witness ==
    /\ \E i \in LogIndices : fb_log[i].x >= Width /\ fb_log[i].y < Height
    /\ \E i \in LogIndices : fb_log[i].y >= Height /\ fb_log[i].x < Width
    /\ \E i \in LogIndices : fb_log[i].changed

----------------------------------------------------------------------------
(* TransformSpec: transform and transform_with_basis on one vertex *)

\* main.rs 219-220, for the framebuffer of the model: a 90 degree field of
\* view (cot(fov/2) = 1), near plane 1, far plane 3
Projection == create_projection_matrix(I(1), Q(Width, Height), I(1), I(3))
Viewport == create_viewport_matrix(I(0), I(0), I(Width), I(Height))

Translate(x, y, z) ==
    MatrixOfColumns(<<I(1), I(0), I(0), I(0)>>, <<I(0), I(1), I(0), I(0)>>,
                    <<I(0), I(0), I(1), I(0)>>, <<I(x), I(y), I(z), I(1)>>)

TCoords == (-MaxCoord)..MaxCoord
TBases ==
    {[right |-> V3(1, 0, 0), up |-> V3(0, 1, 0), forward |-> V3(0, 0, 1)],
     [right |-> V3(0, 0, -1), up |-> V3(0, 1, 0), forward |-> V3(1, 0, 0)]}

TransformInit ==
    /\ pc = "transform_call"
    /\ \E x \in TCoords, y \in TCoords, z \in TCoords,
          tz \in {0, -2}, sc \in {I(1), Q(1, 2)}, yaw \in {0, 1}, b \in TBases :
          t_in = [vertex |-> V3(x, y, z),
                  translation |-> V3(0, 0, tz), scale |-> sc,
                  rotation |-> [x |-> 0, y |-> yaw, z |-> 0],
                  right |-> b.right, up |-> b.up, forward |-> b.forward,
                  view |-> Translate(0, 0, -1),
                  projection |-> Projection, viewport |-> Viewport]
    /\ t_out = [fn |-> "none"]
    /\ framebuffer = main_framebuffer(FALSE)
    /\ IdleFb /\ IdleMain /\ IdleShader /\ IdleCamera

TUnchanged == UNCHANGED <<shader_in, shader_calls, camera_log, pc, framebuffer, mainVars, fb_log, t_in>>

CallTransform ==
    /\ pc = "transform_call" /\ t_out.fn = "none"
    /\ LET r == transform_trace(t_in.vertex, t_in.translation, t_in.scale, t_in.rotation,
                                t_in.view, t_in.projection, t_in.viewport)
       IN  t_out' = [fn |-> "transform", ret |-> r.ret, divided |-> r.divided]
    /\ TUnchanged

CallTransformWithBasis ==
    /\ pc = "transform_call" /\ t_out.fn = "none"
    /\ LET r == transform_with_basis_trace(t_in.vertex, t_in.translation, t_in.scale,
                                           t_in.right, t_in.up, t_in.forward,
                                           t_in.view, t_in.projection, t_in.viewport)
       IN  t_out' = [fn |-> "transform_with_basis", ret |-> r.ret, divided |-> r.divided]
    /\ TUnchanged

TransformNext == CallTransform \/ CallTransformWithBasis

TransformSpec == TransformInit /\ [][TransformNext]_vars

----------------------------------------------------------------------------
(* Claims on the transform, checked under TransformSpec *)

\* projection * view * model * (vertex, 1) for the call that was made
TClip ==
    LET s == t_in.scale
        model ==
            IF t_out.fn = "transform"
            THEN create_model_matrix(t_in.translation, s, t_in.rotation)
            ELSE MatrixOfColumns(
                     <<QMul(t_in.right.x, s), QMul(t_in.right.y, s), QMul(t_in.right.z, s), I(0)>>,
                     <<QMul(t_in.up.x, s), QMul(t_in.up.y, s), QMul(t_in.up.z, s), I(0)>>,
                     <<QMul(t_in.forward.x, s), QMul(t_in.forward.y, s),
                       QMul(t_in.forward.z, s), I(0)>>,
                     <<t_in.translation.x, t_in.translation.y, t_in.translation.z, I(1)>>)
        pvm == multiply_matrix_matrix(t_in.projection,
                                      multiply_matrix_matrix(t_in.view, model))
    IN  multiply_matrix_vector4(pvm,
                                Vector4(t_in.vertex.x, t_in.vertex.y, t_in.vertex.z, I(1)))

\* C7: a vertex whose clip-space w is <= 0 makes transform and
\* transform_with_basis return None, and 1 / w is not evaluated for it.
C7_BehindCameraRejected ==
    t_out.fn /= "none" =>
        \A c \in {TClip} :
            QLe(c.w, I(0)) => (t_out.ret = None /\ ~t_out.divided)

C7_Witness ==
    /\ t_out.fn = "transform_with_basis" /\ t_out.ret = None
    /\ \E c \in {TClip} : c.w = I(0) /\ c.x /= I(0)

C12_ScreenXYDepthNdc ==
    (t_out.fn /= "none" /\ t_out.ret.some) =>
        \A c \in {TClip} :
            /\ t_out.ret.v.x = QMul(Q(Width, 2), QAdd(QDiv(c.x, c.w), I(1)))
            /\ t_out.ret.v.y = QMul(Q(Height, 2), QSub(I(1), QDiv(c.y, c.w)))
            /\ t_out.ret.v.z = QDiv(c.z, c.w)

\* transform accepted a vertex off the centre of the screen whose ndc.z is
\* not the z the viewport matrix would give
C12_Witness ==
    /\ t_out.fn = "transform" /\ t_out.ret.some
    /\ \E c \in {TClip} :
          /\ c.x /= I(0) /\ c.y /= I(0)
          /\ t_out.ret.v.z = QDiv(c.z, c.w)
          /\ t_out.ret.v.z /= QAdd(QMul(Q(1, 2), QDiv(c.z, c.w)), Q(1, 2))

----------------------------------------------------------------------------
(* Vector3 arithmetic of raylib, on rationals *)

V3Add(a, b) == Vector3(QAdd(a.x, b.x), QAdd(a.y, b.y), QAdd(a.z, b.z))
V3Sub(a, b) == Vector3(QSub(a.x, b.x), QSub(a.y, b.y), QSub(a.z, b.z))
V3Neg(a) == Vector3(QNeg(a.x), QNeg(a.y), QNeg(a.z))
V3Dot(a, b) == QAdd(QAdd(QMul(a.x, b.x), QMul(a.y, b.y)), QMul(a.z, b.z))
V3Cross(a, b) ==
    Vector3(QSub(QMul(a.y, b.z), QMul(a.z, b.y)),
            QSub(QMul(a.z, b.x), QMul(a.x, b.z)),
            QSub(QMul(a.x, b.y), QMul(a.y, b.x)))

\* integer square root; exact on the perfect squares the model's scene produces
ISqrt(n) == CHOOSE r \in 0..n : r * r <= n /\ (r + 1) * (r + 1) > n
QSqrt(a) == Q(ISqrt(a.n), ISqrt(a.d))
V3Length(a) == With(V3Dot(a, a), LAMBDA sq : QSqrt(sq))
\* Vector3::normalized: the zero vector is returned unchanged
V3Normalized(a) ==
    With(V3Length(a), LAMBDA len :
        IF len = I(0) THEN a ELSE V3Scale(a, QDiv(I(1), len)))

----------------------------------------------------------------------------
(* entity.rs: Entity and Motion.  Angles are whole quarter turns.          *)

Static == [kind |-> "Static"]
Orbit(center, radius, angular_speed, phase) ==
    [kind |-> "Orbit", center |-> center, radius |-> radius,
     angular_speed |-> angular_speed, phase |-> phase]
OrbitAround(parent, radius, angular_speed, phase) ==
    [kind |-> "OrbitAround", parent |-> parent, radius |-> radius,
     angular_speed |-> angular_speed, phase |-> phase]

\* entity.rs 26-39
rotate_around_axis(v, axis, angle) ==
    With(V3Length(axis), LAMBDA len :
        IF len = I(0) THEN v
        ELSE With(V3Scale(axis, QDiv(I(1), len)), LAMBDA a :
                 LET cos_t == Cos4(angle)
                     sin_t == Sin4(angle)
                     cross == V3Cross(a, v)
                     dot == V3Dot(a, v)
                 IN  V3Add(V3Add(V3Scale(v, cos_t), V3Scale(cross, sin_t)),
                           V3Scale(a, QMul(dot, QSub(I(1), cos_t))))))

\* the roll-free right and up axes of a forward axis (entity.rs 69-81, 213-225)
RollFreeBasis(forward) ==
    LET world_up == V3(0, 1, 0)
        cross0 == V3Cross(world_up, forward)
        right0 == IF V3Length(cross0) = I(0) THEN V3(1, 0, 0) ELSE V3Normalized(cross0)
    IN  With(right0, LAMBDA r0 :
            LET cross1 == V3Cross(forward, r0)
                up0 == IF V3Length(cross1) = I(0) THEN world_up ELSE V3Normalized(cross1)
            IN  [right0 |-> r0, up0 |-> up0])

\* entity.rs 41-104
Entity_new(name, translation, rotation, scale, motion, vertices, vshader, fshader, spin, face_tangent) ==
    LET pitch == rotation.x
        yaw == rotation.y
        roll == rotation.z
        forward0 == Vector3(QMul(Sin4(yaw), Cos4(pitch)), QNeg(Sin4(pitch)),
                            QMul(Cos4(yaw), Cos4(pitch)))
        forward == IF QLt(I(0), V3Length(forward0)) THEN V3Normalized(forward0) ELSE forward0
    IN  With(RollFreeBasis(forward), LAMBDA b :
            LET cr == Cos4(roll)
                sr == Sin4(roll)
                right == V3Add(V3Scale(b.right0, cr), V3Scale(b.up0, sr))
                up == V3Add(V3Scale(V3Neg(b.right0), sr), V3Scale(b.up0, cr))
            IN  [name |-> name, translation |-> translation, rotation |-> rotation,
                 scale |-> scale, forward |-> forward, right |-> right, up |-> up,
                 motion |-> motion, vertices |-> vertices, vshader |-> vshader,
                 fshader |-> fshader, spin |-> spin, face_tangent |-> face_tangent])

\* f32::clamp
\* mutant: a clamp that cuts only from below
QClamp_no_ceiling(a, lo, hi) == IF QLt(a, lo) THEN lo ELSE a

QClamp(a, lo, hi) == IF QLt(a, lo) THEN lo ELSE IF QLt(hi, a) THEN hi ELSE a

\* asin and atan2 in quarter turns, on the axis-aligned arguments of the model
Asin4(y) == IF QLt(I(0), y) THEN 1 ELSE IF QLt(y, I(0)) THEN -1 ELSE 0
Atan24(y, x) ==
    IF y = I(0) THEN (IF QLt(x, I(0)) THEN 2 ELSE 0)
    ELSE IF QLt(I(0), y) THEN 1 ELSE -1

\* entity.rs 130-157: the turns of the local basis b = [f, r, u] for the keys held
TurnBasis(b, keys, dangle) ==
    LET yaw(c, a) == [c EXCEPT !.f = rotate_around_axis(c.f, c.u, a),
                               !.r = rotate_around_axis(c.r, c.u, a)]
        pitch(c, a) == [c EXCEPT !.f = rotate_around_axis(c.f, c.r, a),
                                 !.u = rotate_around_axis(c.u, c.r, a)]
        roll(c, a) == [c EXCEPT !.r = rotate_around_axis(c.r, c.f, a),
                                !.u = rotate_around_axis(c.u, c.f, a)]
        on(key, c, turn(_, _), a) ==
            IF key \in keys THEN With(c, LAMBDA d : turn(d, a)) ELSE c
    IN  on("KEY_E",
           on("KEY_Q",
              on("KEY_DOWN",
                 on("KEY_UP",
                    on("KEY_RIGHT",
                       on("KEY_LEFT", b, yaw, dangle),
                       yaw, -dangle),
                    pitch, dangle),
                 pitch, -dangle),
              roll, dangle),
           roll, -dangle)

\* entity.rs 159-186: Gram-Schmidt on the turned basis, forward kept
Reorthonormalize(b) ==
    With(V3Normalized(b.f), LAMBDA f :
        LET r0 == V3Sub(b.r, V3Scale(f, V3Dot(f, b.r)))
            aux == IF QLt(Q(Abs(f.y.n), f.y.d), Q(99, 100)) THEN V3(0, 1, 0) ELSE V3(1, 0, 0)
            r_proj == IF QLt(V3Length(r0), Q(1, 1000000))
                      THEN V3Normalized(V3Sub(aux, V3Scale(f, V3Dot(f, aux))))
                      ELSE V3Normalized(r0)
        IN  With(r_proj, LAMBDA r :
                With(V3Cross(f, r), LAMBDA u0 :
                    IF QLt(V3Length(u0), Q(1, 1000000))
                    THEN LET aux2 == V3(0, 1, 0)
                             r2 == V3Normalized(V3Sub(aux2, V3Scale(f, V3Dot(f, aux2))))
                         IN  [f |-> f, r |-> r2, u |-> V3Normalized(V3Cross(f, r2))]
                    ELSE [f |-> f, r |-> r, u |-> V3Normalized(u0)])))

\* entity.rs 193-203
MoveDir(b, keys) ==
    LET zero == V3(0, 0, 0)
        term(key, v) == IF key \in keys THEN v ELSE zero
    IN  V3Add(V3Add(V3Add(term("KEY_W", V3Neg(b.f)), term("KEY_S", b.f)),
                    V3Add(term("KEY_D", b.r), term("KEY_A", V3Neg(b.r)))),
              V3Add(term("KEY_SPACE", b.u), term("KEY_LEFT_SHIFT", V3Neg(b.u))))

\* Entity::process_input (entity.rs 106-239) for the keys held during the
\* frame; dt is window.get_frame_time().  Gives the entity and the returned
\* pair (up, right).
process_input(self, keys, dt, speed, rotation_speed) ==
    LET f0 == IF QLt(I(0), V3Length(self.forward)) THEN self.forward ELSE V3(0, 0, 1)
        r0 == IF QLt(I(0), V3Length(self.right)) THEN self.right ELSE V3(1, 0, 0)
        u0 == IF QLt(I(0), V3Length(self.up)) THEN self.up ELSE V3(0, 1, 0)
        dangle == rotation_speed * dt
    IN  With(Reorthonormalize(TurnBasis([f |-> f0, r |-> r0, u |-> u0], keys, dangle)),
             LAMBDA b :
        With(MoveDir(b, keys), LAMBDA move_dir :
        With(RollFreeBasis(b.f), LAMBDA rf :
            LET translation ==
                    IF QLt(I(0), V3Length(move_dir))
                    THEN V3Add(self.translation,
                               V3Scale(V3Normalized(move_dir), I(speed * dt)))
                    ELSE self.translation
                pitch == -Asin4(b.f.y)
                yaw == Atan24(b.f.x, b.f.z)
                cos_roll == QClamp(V3Dot(b.r, rf.right0), I(-1), I(1))
                sin_roll == QNeg(QClamp(V3Dot(b.u, rf.right0), I(-1), I(1)))
                roll == Atan24(sin_roll, cos_roll)
            IN  [self |-> [self EXCEPT !.forward = b.f, !.right = b.r, !.up = b.u,
                                       !.translation = translation,
                                       !.rotation = [x |-> pitch, y |-> yaw, z |-> roll]],
                 ret |-> <<b.u, b.r>>])))

----------------------------------------------------------------------------
(* camera.rs: the camera that follows the ship *)

\* matrix.rs: the look-at matrix of an eye, a target and an up direction
create_view_matrix(eye, target, up) ==
    With(V3Normalized(V3Sub(eye, target)), LAMBDA forward :
    With(V3Normalized(V3Cross(up, forward)), LAMBDA right :
    With(V3Cross(forward, right), LAMBDA actual_up :
        MatrixOfColumns(<<right.x, actual_up.x, forward.x, I(0)>>,
                        <<right.y, actual_up.y, forward.y, I(0)>>,
                        <<right.z, actual_up.z, forward.z, I(0)>>,
                        <<QNeg(V3Dot(right, eye)), QNeg(V3Dot(actual_up, eye)),
                          QNeg(V3Dot(forward, eye)), I(1)>>))))

\* camera.rs 30-62
Camera_new(initial_eye, initial_target) ==
    LET offset == V3Sub(initial_eye, initial_target)
        distance == QMax(V3Length(offset), Q(1, 1000))
        rel == Vector3(V3Dot(offset, V3(1, 0, 0)), V3Dot(offset, V3(0, 1, 0)),
                       QNeg(V3Dot(offset, V3(0, 0, 1))))
        offset_dir_local == IF QLt(I(0), V3Length(rel))
                            THEN V3Scale(rel, QDiv(I(1), V3Length(rel)))
                            ELSE V3(0, 0, 1)
    IN  [eye |-> initial_eye, target |-> initial_target, up |-> V3(0, 1, 0),
         right |-> V3(1, 0, 0), forward |-> V3(0, 0, 1),
         offset_dir_local |-> offset_dir_local, distance |-> distance,
         zoom_speed |-> Q(1, 2)]

\* camera.rs 67-116
follow_ship(self, ship_pos, ship_right, ship_up) ==
    LET unit(v, fallback) ==
            IF V3Length(v) = I(0) THEN fallback ELSE V3Scale(v, QDiv(I(1), V3Length(v)))
    IN  With(<<unit(ship_right, V3(1, 0, 0)), unit(ship_up, V3(0, 1, 0))>>, LAMBDA ru :
        With(unit(V3Cross(ru[1], ru[2]), V3(0, 0, 1)), LAMBDA f :
            LET r == ru[1]
                u == ru[2]
                d == self.offset_dir_local
                dir == IF QLt(I(0), V3Length(d)) THEN V3Scale(d, QDiv(I(1), V3Length(d))) ELSE d
                scaled == V3Scale(dir, self.distance)
                world_offset ==
                    V3Sub(V3Add(V3Scale(r, scaled.x), V3Scale(u, scaled.y)),
                          V3Scale(f, scaled.z))
            IN  [self EXCEPT !.target = ship_pos, !.eye = V3Add(ship_pos, world_offset),
                             !.up = u, !.right = r, !.forward = f]))

\* mutant: the distance is lowered without the floor
zoom_in_without_floor(self) == [self EXCEPT !.distance = QSub(self.distance, self.zoom_speed)]

\* camera.rs 119-124
zoom_in(self) ==
    LET distance == QSub(self.distance, self.zoom_speed)
    IN  [self EXCEPT !.distance = IF QLt(distance, Q(1, 2)) THEN Q(1, 2) ELSE distance]

\* camera.rs 127-129
zoom_out(self) == [self EXCEPT !.distance = QAdd(self.distance, self.zoom_speed)]

\* camera.rs 132-134
get_view_matrix(self) == create_view_matrix(self.eye, self.target, self.up)

----------------------------------------------------------------------------
(* main.rs 262-329: input, motion and camera update of one frame.  Time is *)
(* counted in ticks and get_frame_time() is one tick; angular speeds are   *)
(* quarter turns per tick.                                                 *)

\* main.rs 262-268, the step 0.3 * dt or 0.5 * dt being `step`
\* mutant: the value is clamped before the keys are applied
update_control_clamp_first(value, keys, up_key, down_key, step, lo, hi) ==
    LET clamped == QClamp(value, lo, hi)
        raised == IF up_key \in keys THEN QAdd(clamped, step) ELSE clamped
    IN  IF down_key \in keys THEN QSub(raised, step) ELSE raised

\* main.rs 262-268 for one of the two controls
update_control(value, keys, up_key, down_key, step, lo, hi) ==
    LET raised == IF up_key \in keys THEN QAdd(value, step) ELSE value
        lowered == IF down_key \in keys THEN QSub(raised, step) ELSE raised
    IN  QClamp(lowered, lo, hi)

\* main.rs 276: the last index holding each name
index_by_name(ents, name) ==
    LET hits == {i \in 1..Len(ents) : ents[i].name = name}
    IN  IF hits = {} THEN 0 ELSE CHOOSE i \in hits : \A j \in hits : j <= i

\* mutant: the orbit position is written into the mesh as well
motion_pass1_bakes_orbit(ents, t) ==
    [i \in 1..Len(ents) |->
        LET m == ents[i].motion
        IN  IF m.kind = "Orbit"
            THEN LET theta == m.phase + m.angular_speed * t
                     at == Vector3(QAdd(m.center.x, QMul(m.radius, Cos4(theta))),
                                   m.center.y,
                                   QAdd(m.center.z, QMul(m.radius, Sin4(theta))))
                 IN  [ents[i] EXCEPT !.translation = at,
                                     !.vertices = [k \in 1..Len(@) |-> V3Add(@[k], at)]]
            ELSE ents[i]]

\* main.rs 279-291
motion_pass1(ents, t) ==
    [i \in 1..Len(ents) |->
        LET m == ents[i].motion
        IN  IF m.kind = "Orbit"
            THEN LET theta == m.phase + m.angular_speed * t
                 IN  [ents[i] EXCEPT !.translation =
                          Vector3(QAdd(m.center.x, QMul(m.radius, Cos4(theta))),
                                  m.center.y,
                                  QAdd(m.center.z, QMul(m.radius, Sin4(theta))))]
            ELSE ents[i]]

\* mutant: the parent is read where the previous frame left it
RECURSIVE motion_pass2_stale_parent(_, _, _, _)
motion_pass2_stale_parent(ents, names, i, t) ==
    IF i > Len(ents) THEN ents
    ELSE LET m == ents[i].motion
             pi == index_by_name(names, m.parent)
         IN  IF m.kind = "OrbitAround" /\ pi /= 0
             THEN LET parent_pos == names[pi].translation
                      theta == m.phase + m.angular_speed * t
                      world_offset == Vector3(QMul(m.radius, Cos4(theta)), I(0),
                                              QMul(m.radius, Sin4(theta)))
                      moved == IF m.radius = I(0) THEN parent_pos
                               ELSE V3Add(parent_pos, world_offset)
                  IN  With([ents EXCEPT ![i].translation = moved], LAMBDA next :
                          motion_pass2_stale_parent(next, names, i + 1, t))
             ELSE motion_pass2_stale_parent(ents, names, i + 1, t)

\* mutant: an entity whose parent is missing orbits the origin
RECURSIVE motion_pass2_orphans_to_origin(_, _, _, _)
motion_pass2_orphans_to_origin(ents, names, i, t) ==
    IF i > Len(ents) THEN ents
    ELSE LET m == ents[i].motion
             pi == index_by_name(names, m.parent)
         IN  IF m.kind = "OrbitAround"
             THEN LET parent_pos == IF pi /= 0 THEN ents[pi].translation ELSE V3(0, 0, 0)
                      theta == m.phase + m.angular_speed * t
                      world_offset == Vector3(QMul(m.radius, Cos4(theta)), I(0),
                                              QMul(m.radius, Sin4(theta)))
                      moved == IF m.radius = I(0) THEN parent_pos
                               ELSE V3Add(parent_pos, world_offset)
                  IN  With([ents EXCEPT ![i].translation = moved], LAMBDA next :
                          motion_pass2_orphans_to_origin(next, names, i + 1, t))
             ELSE motion_pass2_orphans_to_origin(ents, names, i + 1, t)

\* main.rs 294-316, from entity i on, names resolved in the vector as it
\* was before the passes
RECURSIVE motion_pass2(_, _, _, _)
motion_pass2(ents, names, i, t) ==
    IF i > Len(ents) THEN ents
    ELSE LET m == ents[i].motion
             pi == index_by_name(names, m.parent)
         IN  IF m.kind = "OrbitAround" /\ pi /= 0
             THEN LET parent_pos == ents[pi].translation
                      theta == m.phase + m.angular_speed * t
                      world_offset == Vector3(QMul(m.radius, Cos4(theta)), I(0),
                                              QMul(m.radius, Sin4(theta)))
                      moved == IF m.radius = I(0) THEN parent_pos
                               ELSE V3Add(parent_pos, world_offset)
                  IN  With([ents EXCEPT ![i].translation = moved], LAMBDA next :
                          motion_pass2(next, names, i + 1, t))
             ELSE motion_pass2(ents, names, i + 1, t)

\* main.rs 319: position of the first entity named "ship", 0 if there is none
ShipIndex(ents) ==
    LET hits == {i \in 1..Len(ents) : ents[i].name = "ship"}
    IN  IF hits = {} THEN 0 ELSE CHOOSE i \in hits : \A j \in hits : i <= j

----------------------------------------------------------------------------
(* triangle.rs: the rasterizer *)

\* light.rs
Light_new(position) == [position |-> position]

\* the pixels of the framebuffer extent, row by row
ExtentPixels == [k \in 1..(Width * Height) |-> <<(k - 1) % Width, (k - 1) \div Width>>]

\* edge function of the directed edge a -> b at the point (px, py)
EdgeFunction(a, b, px, py) ==
    QSub(QMul(QSub(px, a.x), QSub(b.y, a.y)), QMul(QSub(py, a.y), QSub(b.x, a.x)))

\* barycentric weights of the centre of pixel p, normalized by the area
Barycentric(v0, v1, v2, area, p) ==
    LET px == Q(2 * p[1] + 1, 2)
        py == Q(2 * p[2] + 1, 2)
    IN  <<QDiv(EdgeFunction(v1, v2, px, py), area),
          QDiv(EdgeFunction(v2, v0, px, py), area),
          QDiv(EdgeFunction(v0, v1, px, py), area)>>

Mix(w, a0, a1, a2) == QAdd(QAdd(QMul(w[1], a0), QMul(w[2], a1)), QMul(w[3], a2))
MixV3(w, p0, p1, p2) ==
    Vector3(Mix(w, p0.x, p1.x, p2.x), Mix(w, p0.y, p1.y, p2.y), Mix(w, p0.z, p1.z, p2.z))

\* mutant: a triangle without area covers the pixels of its bounding box,
\* each with the attributes of its first vertex
Coverage_flat_drawn(v0, v1, v2) ==
    LET min_x == QFloor(QMin(v0.x, QMin(v1.x, v2.x)))
        max_x == QCeil(QMax(v0.x, QMax(v1.x, v2.x)))
        min_y == QFloor(QMin(v0.y, QMin(v1.y, v2.y)))
        max_y == QCeil(QMax(v0.y, QMax(v1.y, v2.y)))
        weighted == [k \in 1..Len(ExtentPixels) |->
                        [p |-> ExtentPixels[k], w |-> <<I(1), I(0), I(0)>>]]
        covered(c) ==
            /\ min_x <= c.p[1] /\ c.p[1] <= max_x
            /\ min_y <= c.p[2] /\ c.p[2] <= max_y
    IN  SelectSeq(weighted, covered)

\* the covered pixels of a triangle with their weights: the pixels of the
\* bounding box, clamped to the framebuffer extent, whose centre has no
\* weight of the sign opposite to the area; none for a zero area
Coverage(v0, v1, v2) ==
    With(EdgeFunction(v0, v1, v2.x, v2.y), LAMBDA area :
        IF area = I(0) THEN <<>>
        ELSE LET min_x == QFloor(QMin(v0.x, QMin(v1.x, v2.x)))
                 max_x == QCeil(QMax(v0.x, QMax(v1.x, v2.x)))
                 min_y == QFloor(QMin(v0.y, QMin(v1.y, v2.y)))
                 max_y == QCeil(QMax(v0.y, QMax(v1.y, v2.y)))
             IN  With(<<min_x, max_x, min_y, max_y>>, LAMBDA box :
                 LET weighted == [k \in 1..Len(ExtentPixels) |->
                                     [p |-> ExtentPixels[k],
                                      w |-> Barycentric(v0, v1, v2, area, ExtentPixels[k])]]
                     covered(c) ==
                         /\ box[1] <= c.p[1] /\ c.p[1] <= box[2]
                         /\ box[3] <= c.p[2] /\ c.p[2] <= box[4]
                         /\ \A i \in 1..3 : QLe(I(0), c.w[i])
                 IN  SelectSeq(weighted, covered)))

\* triangle(v0, v1, v2, o0, o1, o2, light): the fragments of render
triangle(v0, v1, v2, o0, o1, o2, light) ==
    With(Coverage(v0, v1, v2), LAMBDA cov :
        [k \in 1..Len(cov) |->
            Fragment(I(cov[k].p[1]), I(cov[k].p[2]), Mix(cov[k].w, v0.z, v1.z, v2.z),
                     MixV3(cov[k].w, o0, o1, o2))])

\* triangle_sky(v0, v1, v2, c0, c1, c2): the fragments of the sky sphere
triangle_sky(v0, v1, v2, c0, c1, c2) ==
    With(Coverage(v0, v1, v2), LAMBDA cov :
        [k \in 1..Len(cov) |->
            SkyFragment(I(cov[k].p[1]), I(cov[k].p[2]), Mix(cov[k].w, v0.z, v1.z, v2.z),
                        MixV3(cov[k].w, c0, c1, c2))])

----------------------------------------------------------------------------
(* f32 in the shader stage.  The shaders multiply by decimal constants     *)
(* octave after octave and call sin, tanh, atan2 and sqrt, so their f32    *)
(* values are kept on a grid of 1/Grid: products, quotients and decimal    *)
(* constants are rounded down to it, sums and differences are exact.  The  *)
(* four library functions are replaced by rational functions of the same   *)
(* range, sign and symmetry.                                                *)

Grid == 64

\* floor(a * Grid) / Grid, the whole part and the fraction of a scaled apart
Round(a) == Q((a.n \div a.d) * Grid + ((a.n % a.d) * Grid) \div a.d, Grid)
\* the decimal constant n/d
F32(n, d) == Round(Q(n, d))
FMul(a, b) == With(<<a, b>>, LAMBDA ab : Round(QMul(ab[1], ab[2])))
FDiv(a, b) == With(<<a, b>>, LAMBDA ab : Round(QDiv(ab[1], ab[2])))
QAbs(a) == [n |-> Abs(a.n), d |-> a.d]

Pi == F32(355, 113)

\* f32::sin: the arch 4 t (pi - t) / pi^2 on [0, pi], mirrored on [pi, 2 pi)
FSin(x) ==
    With(x, LAMBDA a :
    With(QSub(a, QMul(QMul(I(2), Pi), I(QFloor(QDiv(a, QMul(I(2), Pi)))))), LAMBDA r :
    With(IF QLe(r, Pi) THEN <<r, 1>> ELSE <<QSub(r, Pi), -1>>, LAMBDA t :
        QMul(I(t[2]), FDiv(FMul(I(4), FMul(t[1], QSub(Pi, t[1]))), FMul(Pi, Pi))))))

\* f32::tanh: x / (1 + |x|)
FTanh(x) == With(x, LAMBDA a : FDiv(a, QAdd(I(1), QAbs(a))))

\* f32::atan2: the angle of (x, y) measured along the diamond |x| + |y| = 1
FAtan2(y, x) ==
    With(<<y, x>>, LAMBDA a :
        IF a[1].n = 0 /\ a[2].n = 0 THEN I(0)
        ELSE With(FMul(FDiv(QAbs(a[1]), QAdd(QAbs(a[1]), QAbs(a[2]))), QDiv(Pi, I(2))),
                  LAMBDA q :
                 LET upper == IF a[2].n >= 0 THEN q ELSE QSub(Pi, q)
                 IN  IF a[1].n >= 0 THEN upper ELSE QNeg(upper)))

\* the largest r in lo..hi with r * r <= n, given lo * lo <= n < (hi + 1)^2
RECURSIVE SqrtSearch(_, _, _)
SqrtSearch(n, lo, hi) ==
    IF lo >= hi THEN lo
    ELSE LET mid == (lo + hi + 1) \div 2
         IN  IF mid * mid <= n THEN SqrtSearch(n, mid, hi) ELSE SqrtSearch(n, lo, mid - 1)

\* f32::sqrt, rounded down to the grid
FSqrt(a) ==
    With((a.n * Grid * Grid) \div a.d, LAMBDA n :
        Q(SqrtSearch(n, 0, IF n < 46340 THEN n ELSE 46340), Grid))

\* `a % b` of f32: the remainder has the sign of a
FRem(a, b) ==
    With(QDiv(a, b), LAMBDA q :
        QSub(a, QMul(b, I(IF q.n < 0 THEN -((-q.n) \div q.d) ELSE q.n \div q.d))))

\* the length of a vector and the vector divided by its length when that is
\* positive (the `if len > 0.0` of the fragment shaders)
FLength(v) == FSqrt(QAdd(QAdd(FMul(v.x, v.x), FMul(v.y, v.y)), FMul(v.z, v.z)))
FUnit(v) ==
    With(<<v, FLength(v)>>, LAMBDA a :
        IF QLt(I(0), a[2])
        THEN Vector3(FDiv(a[1].x, a[2]), FDiv(a[1].y, a[2]), FDiv(a[1].z, a[2]))
        ELSE a[1])
FScale(v, s) == Vector3(FMul(v.x, s), FMul(v.y, s), FMul(v.z, s))

----------------------------------------------------------------------------
(* shaders.rs and uniforms.rs: the shader stage *)

Identity == [kind |-> "Identity"]
SolarFlare == [kind |-> "SolarFlare"]
DisplacePlanarY(amp, freq, octaves, lacunarity, gain, time_amp) ==
    [kind |-> "DisplacePlanarY", amp |-> amp, freq |-> freq, octaves |-> octaves,
     lacunarity |-> lacunarity, gain |-> gain, time_amp |-> time_amp]

Star == [kind |-> "Star"]
Solid(color) == [kind |-> "Solid", color |-> color]
Rocky(color) == [kind |-> "Rocky", color |-> color]
Strips(angle) == [kind |-> "Strips", angle |-> angle]
AlienShip == [kind |-> "AlienShip"]

Uniforms(t, resolution, temp, intensity) ==
    [time |-> t, resolution |-> resolution, temp |-> temp, intensity |-> intensity]

\* shaders.rs 24-33
dot3(a, b) == QAdd(QAdd(FMul(a.x, b.x), FMul(a.y, b.y)), FMul(a.z, b.z))
fract(x) == With(x, LAMBDA a : QSub(a, I(QFloor(a))))
lerp(a, b, t) == With(<<a, b>>, LAMBDA ab : QAdd(ab[1], FMul(t, QSub(ab[2], ab[1]))))
fade(t) ==
    With(t, LAMBDA s :
        FMul(FMul(FMul(s, s), s), QAdd(FMul(s, QSub(FMul(s, I(6)), I(15))), I(10))))

\* mutant: the hash is seeded by a counter of the calls made so far
hash3_counting(p) ==
    With(QAdd(dot3(p, Vector3(F32(1271, 10), F32(3117, 10), F32(747, 10))),
              I(Len(shader_calls))), LAMBDA n :
        fract(FMul(FSin(FMul(FSin(n), F32(4375854, 100))), F32(14375854, 100))))

\* shaders.rs 36-39
hash3(p) ==
    With(dot3(p, Vector3(F32(1271, 10), F32(3117, 10), F32(747, 10))), LAMBDA n :
        fract(FMul(FSin(FMul(FSin(n), F32(4375854, 100))), F32(14375854, 100))))

\* shaders.rs 41-65; n[dx][dy][dz] is the hash of the cell corner
\* i + (dx, dy, dz)
value_noise3(p) ==
    With(V3(QFloor(p.x), QFloor(p.y), QFloor(p.z)), LAMBDA i :
    With([dx \in 0..1 |-> [dy \in 0..1 |-> [dz \in 0..1 |->
             hash3(V3Add(i, V3(dx, dy, dz)))]]], LAMBDA n :
    With([c \in {"x", "y", "z"} |-> fade(QSub(p[c], i[c]))], LAMBDA u :
    With(<<lerp(n[0][0][0], n[1][0][0], u.x), lerp(n[0][1][0], n[1][1][0], u.x),
           lerp(n[0][0][1], n[1][0][1], u.x), lerp(n[0][1][1], n[1][1][1], u.x)>>,
         LAMBDA nx :
    With(<<lerp(nx[1], nx[2], u.y), lerp(nx[3], nx[4], u.y)>>, LAMBDA nxy :
        lerp(nxy[1], nxy[2], u.z))))))

\* the loop of fbm (shaders.rs 71-75) with `done` of its iterations made
RECURSIVE fbm_loop(_, _, _, _, _, _, _, _)
fbm_loop(p, octaves, lacunarity, gain, done, amp, freq, sum) ==
    IF done >= octaves THEN sum
    ELSE With(<<QAdd(sum, FMul(amp, value_noise3(FScale(p, freq)))),
                FMul(freq, lacunarity), FMul(amp, gain)>>, LAMBDA next :
             fbm_loop(p, octaves, lacunarity, gain, done + 1, next[3], next[2], next[1]))

\* mutant: the first octave has amplitude 1
fbm_full_first_octave(p, octaves, lacunarity, gain) ==
    fbm_loop(p, octaves, lacunarity, gain, 0, I(1), I(1), I(0))

\* shaders.rs 67-77
fbm(p, octaves, lacunarity, gain) ==
    fbm_loop(p, octaves, lacunarity, gain, 0, Q(1, 2), I(1), I(0))

\* procedural.rs: the fractal sum apply_vertex_shader calls for
\* DisplacePlanarY
procedural_fbm3(p, octaves, lacunarity, gain) ==
    fbm_loop(p, octaves, lacunarity, gain, 0, Q(1, 2), I(1), I(0))

\* shaders.rs 79-92
temperature_to_rgb(t) ==
    With(QClamp(t, I(0), I(1)), LAMBDA c :
        IF QLt(c, Q(1, 2))
        THEN Vector3(I(1), lerp(F32(2, 10), I(1), FDiv(c, Q(1, 2))), I(0))
        ELSE Vector3(I(1), I(1), lerp(I(0), F32(3, 10), FDiv(QSub(c, Q(1, 2)), Q(1, 2)))))

\* mutant: the Identity variant snaps the position to whole units
apply_vertex_shader_snapped(v, shader, t) ==
    Vector3(I(QFloor(v.x)), I(QFloor(v.y)), I(QFloor(v.z)))

\* shaders.rs 94-113
apply_vertex_shader(v, shader, t) ==
    CASE shader.kind = "Identity" -> v
      [] shader.kind = "SolarFlare" ->
            With(<<IF QLt(I(0), FLength(v)) THEN FUnit(v) ELSE V3(0, 0, 1),
                   fbm(Vector3(FMul(v.x, Q(1, 4)), FMul(v.y, Q(1, 4)),
                               QAdd(FMul(v.z, Q(1, 4)), FMul(t, F32(2, 10)))),
                       4, I(2), Q(1, 2))>>, LAMBDA a :
                LET flare == FMul(QSub(FMul(a[2], I(2)), I(1)), F32(35, 100))
                IN  V3Add(v, FScale(a[1], flare)))
      [] shader.kind = "DisplacePlanarY" ->
            LET p == V3Add(Vector3(FMul(v.x, shader.freq), I(0), FMul(v.z, shader.freq)),
                           Vector3(I(0), I(0), FMul(t, shader.time_amp)))
                h == procedural_fbm3(p, shader.octaves, shader.lacunarity, shader.gain)
                disp == FMul(shader.amp, h)
            IN  Vector3(v.x, QAdd(v.y, disp), v.z)

\* p.y / |p| >= c, decided on the squares (|p| > 0)
LatGe(p, c) ==
    LET sq == V3Dot(p, p)
        lhs == QMul(p.y, p.y)
        rhs == QMul(QMul(c, c), sq)
    IN  IF QLe(c, I(0))
        THEN QLe(I(0), p.y) \/ QLe(lhs, rhs)
        ELSE QLe(I(0), p.y) /\ QLe(rhs, lhs)
LatLe(p, c) == LatGe(V3Neg(p), QNeg(c))

\* the Lambert term of Rocky and Strips (shaders.rs 204-212, 286-292): the
\* light is at the origin, n is the unit direction p
Lambert(obj_position, p) ==
    With(<<V3Neg(obj_position), p>>, LAMBDA a :
        With(FLength(a[1]), LAMBDA l_len :
            IF QLt(I(0), l_len)
            THEN QMax(dot3(a[2], Vector3(FDiv(a[1].x, l_len), FDiv(a[1].y, l_len),
                                         FDiv(a[1].z, l_len))),
                      I(0))
            ELSE I(1)))

\* shaders.rs 117-148
StarArm(fragment, u) ==
    With(FUnit(fragment.obj_position), LAMBDA dir :
    With(fbm(Vector3(FMul(dir.x, I(3)), FMul(dir.y, I(3)),
                     FMul(FDiv(FRem(u.time, I(8)), I(8)), I(8))),
             5, I(2), F32(55, 100)), LAMBDA turb :
    With(QClamp(FMul(QAdd(FMul(QClamp(QAbs(dir.z), I(0), I(1)), F32(7, 10)),
                          FMul(turb, F32(6, 10))),
                     u.intensity), I(0), I(1)), LAMBDA intensity :
    With(temperature_to_rgb(
             QClamp(FMul(QAdd(intensity, FMul(u.temp, F32(8, 10))), F32(7, 10)), I(0), I(1))),
         LAMBDA color_base :
    With(QAbs(QSub(FMul(value_noise3(
                       Vector3(QAdd(FMul(dir.x, I(10)), FMul(u.time, F32(17, 10))),
                               QSub(FMul(dir.y, I(10)), FMul(u.time, F32(13, 10))),
                               FMul(u.time, Q(1, 2)))), I(2)), I(1))), LAMBDA spikes :
    With(QClamp(QAdd(FMul(F32(6, 10), intensity), FMul(F32(8, 10), spikes)), I(0), Q(3, 2)),
         LAMBDA emission :
        Vector3(QClamp(FMul(color_base.x, emission), I(0), I(1)),
                QClamp(FMul(color_base.y, emission), I(0), I(1)),
                QClamp(FMul(color_base.z, emission), I(0), I(1)))))))))

\* shaders.rs 149-165
SolidArm(fragment, u, color) ==
    With(FAtan2(fragment.position.x, fragment.position.z), LAMBDA angle :
    With(FRem(FMul(FDiv(angle, I(2)), Pi), I(1)), LAMBDA hue :
    With(QAbs(FSin(FMul(hue, I(5)))), LAMBDA r :
        V3Add(FScale(color, Q(1, 2)), FScale(Vector3(r, r, r), Q(1, 2))))))

\* shaders.rs 166-221
RockyArm(fragment, u, color) ==
    With(FUnit(fragment.obj_position), LAMBDA p :
    With(<<fbm(FScale(p, I(4)), 4, I(2), Q(1, 2)),
           fbm(FScale(p, I(12)), 3, F32(24, 10), F32(55, 100)),
           fbm(FScale(p, I(16)), 3, F32(22, 10), Q(1, 2))>>, LAMBDA noise :
    With(QClamp(QAdd(FMul(noise[1], F32(7, 10)), FMul(noise[2], F32(3, 10))), I(0), I(1)),
         LAMBDA rocky :
    With(<<Vector3(QAdd(color.x, FMul(Q(1, 4), rocky)),
                   QAdd(color.y, FMul(F32(2, 10), rocky)),
                   QAdd(color.z, FMul(F32(15, 100), rocky))),
           QSub(I(1), QClamp(FMul(QSub(noise[3], F32(55, 100)), I(8)), I(0), I(1)))>>,
         LAMBDA ac :
    With(QAdd(F32(35, 100), FMul(QSub(I(1), F32(35, 100)), ac[2])), LAMBDA shade :
    With(QAdd(F32(65, 100), FMul(F32(35, 100), Lambert(fragment.obj_position, p))),
         LAMBDA diffuse :
        Vector3(QClamp(FMul(FMul(ac[1].x, shade), diffuse), I(0), I(1)),
                QClamp(FMul(FMul(ac[1].y, shade), diffuse), I(0), I(1)),
                QClamp(FMul(FMul(ac[1].z, shade), diffuse), I(0), I(1)))))))))

\* shaders.rs 222-301
StripsArm(fragment, u) ==
    With(<<FUnit(fragment.obj_position), FMul(u.time, F32(15, 100))>>, LAMBDA pt :
    LET p == pt[1]
        t == pt[2]
        band_light == Vector3(F32(95, 100), F32(9, 10), F32(78, 100))
        band_dark == Vector3(F32(82, 100), F32(6, 10), F32(45, 100))
        cloud_tint == Vector3(I(1), F32(98, 100), F32(95, 100))
        spot_color == Vector3(F32(8, 10), F32(4, 10), F32(2, 10))
        toward(a, b, m) == QAdd(a, FMul(QSub(b, a), m))
    IN
    With(fbm(Vector3(FMul(p.x, I(6)), FMul(p.y, I(6)), QAdd(FMul(p.z, I(6)), t)),
             4, F32(21, 10), Q(1, 2)), LAMBDA warp :
    With(QClamp(QAdd(FMul(FTanh(FMul(FSin(FMul(I(14),
                         QAdd(p.y, FMul(QSub(warp, Q(1, 2)), Q(1, 4))))), F32(12, 10))),
                         Q(1, 2)), Q(1, 2)), I(0), I(1)), LAMBDA bands01 :
    With(QClamp(FMul(QMax(QSub(fbm(Vector3(QAdd(FMul(p.x, I(10)), FMul(t, F32(7, 10))),
                                           FMul(p.y, I(18)),
                                           QSub(FMul(p.z, I(10)), FMul(t, Q(1, 2)))),
                                   5, F32(21, 10), Q(1, 2)), F32(4, 10)), I(0)),
                     F32(18, 10)), I(0), I(1)), LAMBDA clouds_mask :
    With(QClamp(FMul(QSub(fbm(FScale(p, I(20)), 3, I(2), Q(1, 2)), Q(3, 4)), I(6)),
                I(0), I(1)), LAMBDA spots_mask :
    With(Lambert(fragment.obj_position, p), LAMBDA ndotl :
        LET banded(c) == toward(band_dark[c], band_light[c], bands01)
            clouded(c) == With(banded(c), LAMBDA b : toward(b, cloud_tint[c], clouds_mask))
            spotted(c) == QAdd(FMul(clouded(c), QSub(I(1), spots_mask)),
                               FMul(spot_color[c], spots_mask))
            diffuse == QAdd(F32(8, 10), FMul(F32(2, 10), ndotl))
            lit(c) == QClamp(FMul(spotted(c), diffuse), I(0), I(1))
        IN  Vector3(lit("x"), lit("y"), lit("z"))))))))

\* shaders.rs 302-316; the latitude tests are decided exactly
AlienShipArm(fragment) ==
    LET p == fragment.obj_position
        at_origin == V3Dot(p, p) = I(0)
        ge(c) == IF at_origin THEN QLe(c, p.y) ELSE LatGe(p, c)
        le(c) == IF at_origin THEN QLe(p.y, c) ELSE LatLe(p, c)
    IN  IF (ge(Q(-1, 2)) /\ le(Q(27, 100))) \/ ge(Q(43, 100))
        THEN Vector3(Q(7, 10), Q(7, 10), Q(7, 10))
        ELSE Vector3(I(0), I(1), I(0))

\* shaders.rs 115-317
fragment_shader(fragment, u, shader) ==
    CASE shader.kind = "Star" -> StarArm(fragment, u)
      [] shader.kind = "Solid" -> SolidArm(fragment, u, shader.color)
      [] shader.kind = "Rocky" -> RockyArm(fragment, u, shader.color)
      [] shader.kind = "Strips" -> StripsArm(fragment, u)
      [] shader.kind = "AlienShip" -> AlienShipArm(fragment)

\* uniforms.rs: a linear RGB triple in [0, 1] to an 8-bit colour
vec3_to_color(v) ==
    Color(AsU8(QMul(v.x, I(255))), AsU8(QMul(v.y, I(255))), AsU8(QMul(v.z, I(255))), 255)

----------------------------------------------------------------------------
(* main.rs 127-207: render *)

\* what the primitive assembly loop has built: the two vectors, and the
\* index triples it has read from the vertex vectors
NoTriangles == [triangles |-> <<>>, obj_tris |-> <<>>, read |-> <<>>]

\* mutant: the loop stops one triangle early
RECURSIVE render_assemble_short(_, _, _, _)
render_assemble_short(transformed_vertices, obj_vertices_after_vs, i, acc) ==
    LET len == Len(transformed_vertices)
        v0 == transformed_vertices[i + 1]
        v1 == transformed_vertices[i + 2]
        v2 == transformed_vertices[i + 3]
    IN  IF i >= len \/ i + 3 >= len THEN acc
        ELSE IF v0.some /\ v1.some /\ v2.some
             THEN render_assemble_short(transformed_vertices, obj_vertices_after_vs, i + 3,
                      [acc EXCEPT !.triangles = Append(@, <<v0.v, v1.v, v2.v>>),
                                  !.obj_tris = Append(@, <<obj_vertices_after_vs[i + 1],
                                                           obj_vertices_after_vs[i + 2],
                                                           obj_vertices_after_vs[i + 3]>>),
                                  !.read = Append(@, <<i, i + 1, i + 2>>)])
             ELSE render_assemble_short(transformed_vertices, obj_vertices_after_vs, i + 3,
                      [acc EXCEPT !.read = Append(@, <<i, i + 1, i + 2>>)])

\* mutant: a triangle is kept when its first two vertices are visible, the
\* second standing in for a clipped third
RECURSIVE render_assemble_partial(_, _, _, _)
render_assemble_partial(transformed_vertices, obj_vertices_after_vs, i, acc) ==
    LET len == Len(transformed_vertices)
        v0 == transformed_vertices[i + 1]
        v1 == transformed_vertices[i + 2]
        v2 == transformed_vertices[i + 3]
    IN  IF i >= len \/ i + 2 >= len THEN acc
        ELSE IF v0.some /\ v1.some
             THEN render_assemble_partial(transformed_vertices, obj_vertices_after_vs, i + 3,
                      [acc EXCEPT !.triangles =
                                      Append(@, <<v0.v, v1.v, IF v2.some THEN v2.v ELSE v1.v>>),
                                  !.obj_tris = Append(@, <<obj_vertices_after_vs[i + 1],
                                                           obj_vertices_after_vs[i + 2],
                                                           obj_vertices_after_vs[i + 3]>>),
                                  !.read = Append(@, <<i, i + 1, i + 2>>)])
             ELSE render_assemble_partial(transformed_vertices, obj_vertices_after_vs, i + 3,
                      [acc EXCEPT !.read = Append(@, <<i, i + 1, i + 2>>)])

\* mutant: the object-space triple is taken at the position of the kept
\* triangle among the kept ones, not at the mesh index
RECURSIVE render_assemble_packed(_, _, _, _)
render_assemble_packed(transformed_vertices, obj_vertices_after_vs, i, acc) ==
    LET len == Len(transformed_vertices)
        v0 == transformed_vertices[i + 1]
        v1 == transformed_vertices[i + 2]
        v2 == transformed_vertices[i + 3]
        j == 3 * Len(acc.triangles)
    IN  IF i >= len \/ i + 2 >= len THEN acc
        ELSE IF v0.some /\ v1.some /\ v2.some
             THEN render_assemble_packed(transformed_vertices, obj_vertices_after_vs, i + 3,
                      [acc EXCEPT !.triangles = Append(@, <<v0.v, v1.v, v2.v>>),
                                  !.obj_tris = Append(@, <<obj_vertices_after_vs[j + 1],
                                                           obj_vertices_after_vs[j + 2],
                                                           obj_vertices_after_vs[j + 3]>>),
                                  !.read = Append(@, <<i, i + 1, i + 2>>)])
             ELSE render_assemble_packed(transformed_vertices, obj_vertices_after_vs, i + 3,
                      [acc EXCEPT !.read = Append(@, <<i, i + 1, i + 2>>)])

\* main.rs 163-180, from index i on (i counts from 0 as in the source)
RECURSIVE render_assemble(_, _, _, _)
render_assemble(transformed_vertices, obj_vertices_after_vs, i, acc) ==
    LET len == Len(transformed_vertices)
        v0 == transformed_vertices[i + 1]
        v1 == transformed_vertices[i + 2]
        v2 == transformed_vertices[i + 3]
    IN  IF i >= len \/ i + 2 >= len THEN acc
        ELSE IF v0.some /\ v1.some /\ v2.some
             THEN render_assemble(transformed_vertices, obj_vertices_after_vs, i + 3,
                      [acc EXCEPT !.triangles = Append(@, <<v0.v, v1.v, v2.v>>),
                                  !.obj_tris = Append(@, <<obj_vertices_after_vs[i + 1],
                                                           obj_vertices_after_vs[i + 2],
                                                           obj_vertices_after_vs[i + 3]>>),
                                  !.read = Append(@, <<i, i + 1, i + 2>>)])
             ELSE render_assemble(transformed_vertices, obj_vertices_after_vs, i + 3,
                      [acc EXCEPT !.read = Append(@, <<i, i + 1, i + 2>>)])


\* the concatenation of a sequence of sequences
RECURSIVE Flatten(_)
Flatten(ss) == IF ss = <<>> THEN <<>> ELSE Head(ss) \o Flatten(Tail(ss))

Min2(a, b) == IF a < b THEN a ELSE b

\* main.rs 184-186: zip stops at the shorter vector
render_rasterize(triangles, obj_tris, light) ==
    Flatten([k \in 1..Min2(Len(triangles), Len(obj_tris)) |->
                triangle(triangles[k][1], triangles[k][2], triangles[k][3],
                         obj_tris[k][1], obj_tris[k][2], obj_tris[k][3], light)])

\* main.rs 196-205, from fragment k on
RECURSIVE render_fragments(_, _, _, _, _)
render_fragments(fb, fragments, k, uniforms, fshader) ==
    IF k > Len(fragments) THEN fb
    ELSE With(fragment_shader(fragments[k], uniforms, fshader), LAMBDA final_rgb :
         With(render_fragment(fb, fragments[k], vec3_to_color(final_rgb)), LAMBDA next :
             render_fragments(next, fragments, k + 1, uniforms, fshader)))

\* render (main.rs 127-207): the framebuffer it leaves and the vectors it built
render(fb, translation, scale, rotation, basis, vertex_array, vshader, fshader, view_m, projection, viewport, t, resolution, temp, intensity) ==
    LET light == Light_new(V3(0, 10, 0))
        obj_vertices_after_vs ==
            [i \in 1..Len(vertex_array) |-> apply_vertex_shader(vertex_array[i], vshader, t)]
    IN  With(obj_vertices_after_vs, LAMBDA ov :
        With([i \in 1..Len(ov) |->
                 IF basis.some
                 THEN transform_with_basis(ov[i], translation, scale, basis.v[1], basis.v[2],
                                           basis.v[3], view_m, projection, viewport)
                 ELSE transform(ov[i], translation, scale, rotation, view_m, projection,
                                viewport)],
             LAMBDA transformed_vertices :
        With(render_assemble(transformed_vertices, ov, 0, NoTriangles), LAMBDA assembled :
        With(render_rasterize(assembled.triangles, assembled.obj_tris, light),
             LAMBDA fragments :
            [framebuffer |->
                 render_fragments(fb, fragments, 1,
                                  Uniforms(t, resolution, temp, intensity), fshader),
             draw |-> [kind |-> "render",
                       before |-> fb,
                       translation |-> translation,
                       rotation |-> rotation,
                       view |-> view_m,
                       vertex_array |-> vertex_array,
                       transformed_vertices |-> transformed_vertices,
                       payload |-> ov,
                       triangles |-> assembled.triangles,
                       payload_tris |-> assembled.obj_tris,
                       read |-> assembled.read,
                       fragments |-> fragments,
                       uniforms |-> Uniforms(t, resolution, temp, intensity)]]))))

----------------------------------------------------------------------------
(* skybox.rs: the sky sphere, the sky stars and the shooting star *)

\* skybox.rs 190-203, from index i on
RECURSIVE sky_assemble(_, _, _, _)
sky_assemble(transformed_vertices, colors, i, acc) ==
    LET len == Len(transformed_vertices)
        v0 == transformed_vertices[i + 1]
        v1 == transformed_vertices[i + 2]
        v2 == transformed_vertices[i + 3]
    IN  IF i >= len \/ i + 2 >= len THEN acc
        ELSE IF v0.some /\ v1.some /\ v2.some
             THEN sky_assemble(transformed_vertices, colors, i + 3,
                      [acc EXCEPT !.triangles = Append(@, <<v0.v, v1.v, v2.v>>),
                                  !.obj_tris = Append(@, <<colors[i + 1], colors[i + 2],
                                                           colors[i + 3]>>),
                                  !.read = Append(@, <<i, i + 1, i + 2>>)])
             ELSE sky_assemble(transformed_vertices, colors, i + 3,
                      [acc EXCEPT !.read = Append(@, <<i, i + 1, i + 2>>)])

\* skybox.rs 207-209
sky_rasterize(triangles, fragcols) ==
    Flatten([k \in 1..Min2(Len(triangles), Len(fragcols)) |->
                triangle_sky(triangles[k][1], triangles[k][2], triangles[k][3],
                             fragcols[k][1], fragcols[k][2], fragcols[k][3])])

\* skybox.rs 210-217, from fragment k on
RECURSIVE sky_fragments(_, _, _)
sky_fragments(fb, fragments, k) ==
    IF k > Len(fragments) THEN fb
    ELSE With(sky_fragment(fb, fragments[k], vec3_to_color(fragments[k].color)),
              LAMBDA next : sky_fragments(next, fragments, k + 1))

\* draw_sky_sphere (skybox.rs 179-218)
draw_sky_sphere(fb, skybox, view_m, viewport, projection) ==
    With([i \in 1..Min2(Len(skybox.vertices), Len(skybox.colors)) |->
             transform(skybox.vertices[i], V3(0, 0, 0), I(1), [x |-> 0, y |-> 0, z |-> 0],
                       view_m, projection, viewport)],
         LAMBDA transformed_vertices :
    With(sky_assemble(transformed_vertices, skybox.colors, 0, NoTriangles), LAMBDA assembled :
    With(sky_rasterize(assembled.triangles, assembled.obj_tris), LAMBDA fragments :
        [framebuffer |-> sky_fragments(fb, fragments, 1),
         draw |-> [kind |-> "draw_sky_sphere",
                   view |-> view_m,
                   vertex_array |-> skybox.vertices,
                   transformed_vertices |-> transformed_vertices,
                   payload |-> skybox.colors,
                   triangles |-> assembled.triangles,
                   payload_tris |-> assembled.obj_tris,
                   read |-> assembled.read,
                   fragments |-> fragments]])))

\* the offsets of the star block in loop order (skybox.rs 252-253, half = 1)
StarOffsets ==
    <<<<-1, -1>>, <<0, -1>>, <<1, -1>>, <<-1, 0>>, <<0, 0>>, <<1, 0>>,
      <<-1, 1>>, <<0, 1>>, <<1, 1>>>>

\* skybox.rs 252-273 for one star, from offset k on
RECURSIVE star_block(_, _, _, _)
star_block(fb, screen, bright, k) ==
    IF k > Len(StarOffsets) THEN fb
    ELSE With(star_pixel(fb, screen, bright, StarOffsets[k][1], StarOffsets[k][2]),
              LAMBDA next : star_block(next, screen, bright, k + 1))

\* draw_sky_stars (skybox.rs 220-276), from star s on; `radius` is the
\* distance the stars are placed at
RECURSIVE draw_sky_stars(_, _, _, _, _, _, _)
draw_sky_stars(fb, skybox, view_m, viewport, projection, radius, s) ==
    IF s > Min2(Len(skybox.star_dirs), Len(skybox.star_brightness)) THEN fb
    ELSE With(transform(V3Scale(skybox.star_dirs[s], radius), V3(0, 0, 0), I(1),
                        [x |-> 0, y |-> 0, z |-> 0], view_m, projection, viewport),
              LAMBDA screen :
             With(IF screen.some
                  THEN star_block(fb, screen.v, skybox.star_brightness[s], 1)
                  ELSE fb,
                  LAMBDA next :
                      draw_sky_stars(next, skybox, view_m, viewport, projection, radius,
                                     s + 1)))


\* f32 `%` on a non-negative dividend
QRem(a, b) == QSub(a, QMul(b, I(QFloor(QDiv(a, b)))))

\* skybox.rs 81-96, from trail pixel i on
RECURSIVE shooting_trail(_, _, _, _, _, _)
shooting_trail(fb, start, dir, i, width, height) ==
    IF i >= ShootLength THEN fb
    ELSE With(shooting_pixel(fb, start, dir, i, width, height), LAMBDA next :
             shooting_trail(next, start, dir, i + 1, width, height))

\* mutant: the trail is drawn in every part of the cycle
draw_shooting_star_whole_cycle(fb, t, width, height, hash) ==
    LET period == Q(15, 2)
        t_cycle == QRem(t, period)
        phase == QDiv(t_cycle, period)
        travel == QMul(phase, QMul(I(width), Q(7, 5)))
        start == [x |-> QSub(QMul(hash.sx, I(width)), QMul(hash.dir.x, travel)),
                  y |-> QSub(QMul(hash.sy, I(height)), QMul(hash.dir.y, travel))]
    IN  With(start, LAMBDA st : shooting_trail(fb, st, hash.dir, 0, width, height))

\* draw_shooting_star (skybox.rs 54-97).  `hash` holds the values the sine
\* hashes of lines 66-73 give for the seed of this cycle: sx, sy in [0, 1)
\* and the unit vector dir.
draw_shooting_star(fb, t, width, height, hash) ==
    LET period == Q(15, 2)
        t_cycle == QRem(t, period)
        phase == QDiv(t_cycle, period)
        travel == QMul(phase, QMul(I(width), Q(7, 5)))
        start == [x |-> QSub(QMul(hash.sx, I(width)), QMul(hash.dir.x, travel)),
                  y |-> QSub(QMul(hash.sy, I(height)), QMul(hash.dir.y, travel))]
    IN  IF QLt(Q(4, 5), phase) THEN fb
        ELSE With(start, LAMBDA st : shooting_trail(fb, st, hash.dir, 0, width, height))

----------------------------------------------------------------------------
(* The scene of the model: what main holds when the loop is entered        *)
(* (main.rs 209-256), scaled to the small framebuffer                      *)

NoRotation == [x |-> 0, y |-> 0, z |-> 0]

\* meshes of the first entity: n vertices going round a triangle, with
\* vertex number `hidden` (if any) moved far off its plane
EntityMesh(n, hidden) ==
    [i \in 1..n |->
        IF i = hidden THEN V3(0, 0, 6)
        ELSE CASE i % 3 = 1 -> V3(-1, -1, 0)
               [] i % 3 = 2 -> V3(1, -1, 0)
               [] OTHER -> V3(-1, 1, 0)]

\* sample_system and the ship (entity.rs 249-366, main.rs 232-246): a body
\* on a world orbit, a body orbiting it, an orbit ring so thin that its
\* triangle has no area, and the ship
Scene(mesh) ==
    <<Entity_new("earth", V3(0, 0, 0), NoRotation, I(1),
                 Orbit(V3(0, 0, -1), I(1), 1, 0), mesh, Identity,
                 Solid(Vector3(I(0), Q(1, 2), I(1))), [x |-> 0, y |-> 1, z |-> 0], FALSE),
      Entity_new("moon", V3(0, 0, 0), NoRotation, I(1),
                 OrbitAround("earth", I(1), 1, 0),
                 <<Vector3(Q(-1, 2), Q(-1, 2), I(0)), Vector3(Q(1, 2), Q(-1, 2), I(0)),
                   Vector3(I(0), Q(1, 2), I(0))>>,
                 Identity, Solid(Vector3(Q(4, 5), Q(4, 5), Q(4, 5))), NoRotation, TRUE),
      Entity_new("orbit_earth", V3(0, 0, 0), NoRotation, I(1), Static,
                 <<V3(-1, 0, 0), V3(0, 0, 0), V3(1, 0, 0)>>,
                 Identity, Solid(V3(1, 1, 1)), NoRotation, FALSE),
      Entity_new("ship", V3(0, 0, 0), NoRotation, I(1), Static,
                 <<V3(-2, -2, 0), V3(2, -2, 0), V3(-2, 2, 0)>>,
                 Identity, AlienShip, NoRotation, FALSE)>>

\* Skybox::new (skybox.rs 135-175): a sky mesh beyond the far plane with its
\* vertex colours, and the star directions with their brightness
Skybox_new ==
    [vertices |-> <<V3(-6, -6, -4), V3(6, -6, -4), V3(-6, 6, -4),
                    V3(0, 0, 4), V3(4, 0, 0), V3(0, 4, 0)>>,
     colors |-> <<Vector3(Q(1, 10), Q(1, 10), Q(3, 10)), Vector3(Q(1, 10), Q(1, 5), Q(1, 2)),
                  Vector3(Q(1, 50), Q(1, 25), Q(1, 10)), Vector3(Q(1, 10), Q(1, 10), Q(3, 10)),
                  Vector3(Q(1, 10), Q(1, 5), Q(1, 2)), Vector3(Q(1, 50), Q(1, 25), Q(1, 10))>>,
     star_dirs |-> <<V3(0, 0, -1), V3(0, 0, 1)>>,
     star_brightness |-> <<Q(3, 5), I(1)>>]
\* the stars sit at 0.95 of the sky's distance (skybox.rs 228)
StarRadius == Q(19, 5)

\* values the sine hashes of draw_shooting_star may give
ShootingHashes ==
    {[sx |-> Q(5, 8), sy |-> Q(3, 8), dir |-> [x |-> Q(4, 5), y |-> Q(3, 5)]]}

\* what the window reports during a frame: the keys held and
\* get_frame_time(), in ticks
FrameInputs ==
    {[keys |-> {}, frame_time |-> 1],
     [keys |-> {"KEY_G", "KEY_H", "KEY_LEFT", "KEY_W", "KEY_F"}, frame_time |-> 1],
     [keys |-> {"KEY_T", "KEY_Y", "KEY_R", "KEY_E", "KEY_SPACE"}, frame_time |-> 2]}

----------------------------------------------------------------------------
(* Spec: the frame loop of main (main.rs 258-385) *)

\* mutant: the frame is presented before the entities are rendered
NextStatement_present_early(at, i, n) ==
    CASE at = "loop_head" -> "clear"
      [] at = "clear" -> "update"
      [] at = "update" -> "draw_sky_sphere"
      [] at = "draw_sky_sphere" -> "draw_sky_stars"
      [] at = "draw_sky_stars" -> "draw_shooting_star"
      [] at = "draw_shooting_star" -> "swap_buffers"
      [] at = "swap_buffers" -> IF n > 0 THEN "render" ELSE "loop_head"
      [] at = "render" -> IF i < n THEN "render" ELSE "loop_head"

\* the statement that follows statement `at` in the body of the loop, i
\* being the entity just rendered and n the number of entities
NextStatement(at, i, n) ==
    CASE at = "loop_head" -> "clear"
      [] at = "clear" -> "update"
      [] at = "update" -> "draw_sky_sphere"
      [] at = "draw_sky_sphere" -> "draw_sky_stars"
      [] at = "draw_sky_stars" -> "draw_shooting_star"
      [] at = "draw_shooting_star" -> IF n > 0 THEN "render" ELSE "swap_buffers"
      [] at = "render" -> IF i < n THEN "render" ELSE "swap_buffers"
      [] at = "swap_buffers" -> "loop_head"

Init ==
    /\ pc = "loop_head"
    /\ \E tie_accepts \in BOOLEAN : framebuffer = main_framebuffer(tie_accepts)
    /\ \E n \in 0..MaxVerts : \E hidden \in {0, 1, n} \cap 0..n :
          entities = Scene(EntityMesh(n, hidden))
    /\ camera = Camera_new(V3(0, 0, 2), V3(0, 0, 0))
    /\ temp_control = Q(1, 10)
    /\ intensity_control = Q(1, 2)
    /\ time = 0
    /\ view = Identity4
    /\ next_entity = 0
    /\ last_draw = [kind |-> "none"]
    /\ frame_log = <<>>
    /\ IdleFb /\ IdleTransform /\ IdleShader /\ IdleCamera

Goto(at) == pc' = NextStatement(at, next_entity, Len(entities))

\* main.rs 258: the loop ends when the window is to close
LoopHead ==
    /\ pc = "loop_head"
    /\ \E window_should_close \in BOOLEAN :
          IF window_should_close \/ time >= MaxTime
          THEN pc' = "closed" /\ UNCHANGED frame_log
          ELSE Goto("loop_head") /\ frame_log' = <<>>
    /\ UNCHANGED <<shader_in, shader_calls, camera_log, framebuffer, entities, camera, temp_control, intensity_control, time,
                   view, next_entity, last_draw, fb_log, t_in, t_out>>

\* main.rs 259
Clear ==
    /\ pc = "clear"
    /\ framebuffer' = clear(framebuffer)
    /\ frame_log' = Append(frame_log, "clear")
    /\ Goto("clear")
    /\ UNCHANGED <<shader_in, shader_calls, camera_log, entities, camera, temp_control, intensity_control, time, view,
                   next_entity, last_draw, fb_log, t_in, t_out>>

\* mutant: the camera follows the ship before the keys move it
follow_the_ship_camera_first(ents, cam, keys, dt) ==
    LET ship == ShipIndex(ents)
    IN  IF ship = 0 THEN [entities |-> ents, camera |-> cam]
        ELSE With(process_input(ents[ship], keys, dt, 1, 1), LAMBDA r :
                 LET zoomed_out == IF "KEY_F" \in keys THEN zoom_out(cam) ELSE cam
                     zoomed == IF "KEY_R" \in keys THEN zoom_in(zoomed_out) ELSE zoomed_out
                 IN  [entities |-> [ents EXCEPT ![ship] = r.self],
                      camera |-> follow_ship(zoomed, ents[ship].translation,
                                             r.ret[2], r.ret[1])])

\* main.rs 319-327 on the entities and the camera
follow_the_ship(ents, cam, keys, dt) ==
    LET ship == ShipIndex(ents)
    IN  IF ship = 0 THEN [entities |-> ents, camera |-> cam]
        ELSE With(process_input(ents[ship], keys, dt, 1, 1), LAMBDA r :
                 LET zoomed_out == IF "KEY_F" \in keys THEN zoom_out(cam) ELSE cam
                     zoomed == IF "KEY_R" \in keys THEN zoom_in(zoomed_out) ELSE zoomed_out
                 IN  [entities |-> [ents EXCEPT ![ship] = r.self],
                      camera |-> follow_ship(zoomed, r.self.translation, r.ret[2], r.ret[1])])

\* main.rs 262-329
Update ==
    /\ pc = "update"
    /\ \E in \in FrameInputs :
          /\ temp_control' = update_control(temp_control, in.keys, "KEY_T", "KEY_G",
                                            QMul(Q(3, 10), I(in.frame_time)), I(0), I(1))
          /\ intensity_control' = update_control(intensity_control, in.keys, "KEY_Y", "KEY_H",
                                                 QMul(Q(1, 2), I(in.frame_time)),
                                                 Q(1, 5), I(2))
          /\ time' = time + 1
          /\ \E moved \in {motion_pass2(motion_pass1(entities, time'), entities, 1, time')} :
             \E f \in {follow_the_ship(moved, camera, in.keys, in.frame_time)} :
                /\ entities' = f.entities
                /\ camera' = f.camera
                /\ view' = get_view_matrix(f.camera)
    /\ next_entity' = 1
    /\ Goto("update")
    /\ UNCHANGED <<shader_in, shader_calls, camera_log, framebuffer, last_draw, frame_log, fb_log, t_in, t_out>>


DrawUnchanged ==
    UNCHANGED <<shader_in, shader_calls, camera_log, entities, camera, temp_control, intensity_control, time, view,
                fb_log, t_in, t_out>>

\* main.rs 331
DrawSkySphere ==
    /\ pc = "draw_sky_sphere"
    /\ \E r \in {draw_sky_sphere(framebuffer, Skybox_new, view, Viewport, Projection)} :
          /\ framebuffer' = r.framebuffer
          /\ last_draw' = r.draw
    /\ frame_log' = Append(frame_log, "draw_sky_sphere")
    /\ Goto("draw_sky_sphere")
    /\ UNCHANGED next_entity
    /\ DrawUnchanged

\* main.rs 332
DrawSkyStars ==
    /\ pc = "draw_sky_stars"
    /\ framebuffer' = draw_sky_stars(framebuffer, Skybox_new, view, Viewport, Projection,
                                     StarRadius, 1)
    /\ last_draw' = [kind |-> "draw_sky_stars"]
    /\ frame_log' = Append(frame_log, "draw_sky_stars")
    /\ Goto("draw_sky_stars")
    /\ UNCHANGED next_entity
    /\ DrawUnchanged

\* main.rs 333
DrawShootingStar ==
    /\ pc = "draw_shooting_star"
    /\ \E hash \in ShootingHashes :
          framebuffer' = draw_shooting_star(framebuffer, I(time), Width, Height, hash)
    /\ last_draw' = [kind |-> "draw_shooting_star"]
    /\ frame_log' = Append(frame_log, "draw_shooting_star")
    /\ Goto("draw_shooting_star")
    /\ UNCHANGED next_entity
    /\ DrawUnchanged

\* main.rs 338-357: the rotation entity e is rendered with
render_rotation(e, t) ==
    LET theta == e.motion.phase + e.motion.angular_speed * t
        tangent == IF e.face_tangent /\ e.motion.kind \in {"Orbit", "OrbitAround"}
                   THEN -theta ELSE 0
    IN  [x |-> e.rotation.x + e.spin.x * t,
         y |-> e.rotation.y + tangent + e.spin.y * t,
         z |-> e.rotation.z + e.spin.z * t]

\* mutant: the rotation the entity is rendered with is stored in the entity
Render_stores_rotation ==
    /\ pc = "render"
    /\ next_entity \in 1..Len(entities)
    /\ LET e == entities[next_entity]
           rot == render_rotation(e, time)
           basis == IF e.name = "ship" THEN Some(<<e.right, e.up, e.forward>>) ELSE None
       IN  /\ \E r \in {render(framebuffer, e.translation, e.scale, rot, basis, e.vertices,
                               e.vshader, e.fshader, view, Projection, Viewport, I(time),
                               [x |-> I(Width), y |-> I(Height)],
                               temp_control, intensity_control)} :
                 /\ framebuffer' = r.framebuffer
                 /\ last_draw' = r.draw
           /\ entities' = [entities EXCEPT ![next_entity].rotation = rot]
    /\ frame_log' = Append(frame_log, "render")
    /\ next_entity' = next_entity + 1
    /\ Goto("render")
    /\ UNCHANGED <<shader_in, shader_calls, camera_log, camera, temp_control, intensity_control, time, view,
                   fb_log, t_in, t_out>>

\* main.rs 336-382: one iteration of `for e in &entities`
Render ==
    /\ pc = "render"
    /\ next_entity \in 1..Len(entities)
    /\ LET e == entities[next_entity]
           rot == render_rotation(e, time)
           basis == IF e.name = "ship" THEN Some(<<e.right, e.up, e.forward>>) ELSE None
       IN  \E r \in {render(framebuffer, e.translation, e.scale, rot, basis, e.vertices,
                            e.vshader, e.fshader, view, Projection, Viewport, I(time),
                            [x |-> I(Width), y |-> I(Height)],
                            temp_control, intensity_control)} :
              /\ framebuffer' = r.framebuffer
              /\ last_draw' = r.draw
    /\ frame_log' = Append(frame_log, "render")
    /\ next_entity' = next_entity + 1
    /\ Goto("render")
    /\ DrawUnchanged

\* main.rs 384: the frame is presented
SwapBuffers ==
    /\ pc = "swap_buffers"
    /\ frame_log' = Append(frame_log, "swap_buffers")
    /\ Goto("swap_buffers")
    /\ UNCHANGED <<shader_in, shader_calls, camera_log, framebuffer, entities, camera, temp_control, intensity_control, time,
                   view, next_entity, last_draw, fb_log, t_in, t_out>>

Next ==
    \/ LoopHead
    \/ Clear
    \/ Update
    \/ DrawSkySphere
    \/ DrawSkyStars
    \/ DrawShootingStar
    \/ Render
    \/ SwapBuffers

Spec == Init /\ [][Next]_vars

----------------------------------------------------------------------------
(* Claims on the frame loop and on primitive assembly, checked under Spec *)

\* the framebuffer calls of one complete loop iteration with n entities
FrameCalls(n) ==
    <<"clear", "draw_sky_sphere", "draw_sky_stars", "draw_shooting_star">>
        \o [i \in 1..n |-> "render"] \o <<"swap_buffers">>

IsPrefix(a, b) == Len(a) <= Len(b) /\ \A i \in 1..Len(a) : a[i] = b[i]

PixelsDiffer(a, b) == a.color /= b.color \/ a.depth /= b.depth

\* C4: each loop iteration makes exactly one clear, then the drawing of the
\* frame (sky sphere, sky stars, shooting star, then every entity in turn),
\* then exactly one swap_buffers; the pixels change only in the clear and in
\* the drawing between the clear and the swap_buffers of the same iteration.
C4_FrameOrder ==
    /\ [](/\ IsPrefix(frame_log, FrameCalls(Len(entities)))
          /\ (pc \in {"loop_head", "closed"} /\ time > 0) =>
                 frame_log = FrameCalls(Len(entities)))
    /\ [][PixelsDiffer(framebuffer, framebuffer') =>
             \/ pc = "clear" /\ frame_log = <<>>
             \/ /\ pc \in {"draw_sky_sphere", "draw_sky_stars", "draw_shooting_star",
                           "render"}
                /\ frame_log /= <<>> /\ frame_log[1] = "clear"
                /\ \A i \in 1..Len(frame_log) : frame_log[i] /= "swap_buffers"]_vars

\* a frame has been presented in which the last entity wrote pixels
C4_Witness ==
    /\ pc = "loop_head"
    /\ frame_log = FrameCalls(Len(entities))
    /\ last_draw.kind = "render" /\ last_draw.fragments /= <<>>
    /\ \E p \in DOMAIN framebuffer.depth : framebuffer.depth[p] /= Far

\* the draw calls that assemble triangles
Assembles == last_draw.kind \in {"render", "draw_sky_sphere"}
\* whether the three vertices of triangle k (from 0) of the last draw call
\* were all visible, and whether any of them was
AllSome(k) == \A j \in 1..3 : last_draw.transformed_vertices[3 * k + j].some
AnySome(k) == \E j \in 1..3 : last_draw.transformed_vertices[3 * k + j].some
TriangleCount == Len(last_draw.transformed_vertices) \div 3
\* the triangles of the mesh whose vertices were all visible, in mesh order
Visible == SelectSeq([k \in 1..TriangleCount |-> k - 1], AllSome)
Rasterized(k) ==
    LET t == last_draw.triangles[k]
        o == last_draw.payload_tris[k]
    IN  IF last_draw.kind = "render"
        THEN triangle(t[1], t[2], t[3], o[1], o[2], o[3], Light_new(V3(0, 10, 0)))
        ELSE triangle_sky(t[1], t[2], t[3], o[1], o[2], o[3])

\* C9: the triangles handed to the rasterizer are exactly the triangles of
\* the mesh whose three vertices transform returned as Some, each with those
\* three vertices; the fragments of the draw call are the fragments of these
\* triangles and of no other.
C9_WholeTrianglesOnly ==
    Assembles =>
        /\ Len(last_draw.triangles) = Len(Visible)
        /\ Len(last_draw.payload_tris) = Len(Visible)
        /\ \A k \in 1..Len(Visible) :
              last_draw.triangles[k] =
                  [j \in 1..3 |-> last_draw.transformed_vertices[3 * Visible[k] + j].v]
        /\ last_draw.fragments = Flatten([k \in 1..Len(Visible) |-> Rasterized(k)])

\* render drew a mesh of which one triangle was rasterized and another, with
\* only some of its vertices clipped, was dropped
C9_Witness ==
    /\ last_draw.kind = "render"
    /\ \E k \in 0..(TriangleCount - 1) : AnySome(k) /\ ~AllSome(k)
    /\ \E k \in 0..(TriangleCount - 1) : AllSome(k)
    /\ last_draw.fragments /= <<>>

\* C10: for a vertex array of length n, primitive assembly reads exactly the
\* index triples (3k, 3k+1, 3k+2) for k = 0 .. floor(n/3) - 1, in that
\* order, and so never an index outside the array.
C10_AssemblyIndices ==
    Assembles =>
        LET n == Len(last_draw.vertex_array)
        IN  /\ last_draw.read = [k \in 1..(n \div 3) |-> <<3 * k - 3, 3 * k - 2, 3 * k - 1>>]
            /\ \A k \in 1..Len(last_draw.read) : \A j \in 1..3 : last_draw.read[k][j] < n

\* render drew a mesh with one or two trailing vertices and a rasterized triangle
C10_Witness ==
    /\ last_draw.kind = "render"
    /\ Len(last_draw.vertex_array) % 3 /= 0
    /\ Len(last_draw.vertex_array) > 3
    /\ last_draw.fragments /= <<>>
    /\ pc \in {"render", "swap_buffers"}

\* C11: every triangle handed to the rasterizer carries the three payload
\* entries (object-space positions in render, colours in draw_sky_sphere) of
\* the same three mesh indices as its three screen vertices, in the same
\* order, whatever triangles before it were dropped.
C11_PayloadPairing ==
    Assembles =>
        /\ Len(last_draw.payload_tris) = Len(last_draw.triangles)
        /\ \A k \in 1..Len(last_draw.triangles) :
              \E t \in 0..(TriangleCount - 1) :
                 /\ t = Visible[k]
                 /\ \A j \in 1..3 :
                       /\ last_draw.transformed_vertices[3 * t + j] =
                              Some(last_draw.triangles[k][j])
                       /\ last_draw.payload_tris[k][j] = last_draw.payload[3 * t + j]

\* render rasterized a triangle that follows a dropped one, whose payload
\* differs from its own
C11_Witness ==
    /\ last_draw.kind = "render"
    /\ Len(last_draw.triangles) > 0
    /\ Visible[1] > 0
    /\ [j \in 1..3 |-> last_draw.payload[j]] /= last_draw.payload_tris[1]
    /\ last_draw.fragments /= <<>>

InRange(v, lo, hi) == QLe(lo, v) /\ QLe(v, hi)

\* C13: whenever render is about to be called or has been called in the
\* main loop, the temperature it is given lies in [0, 1] and the intensity
\* in [0.2, 2.0].
C13_UniformsClamped ==
    /\ pc = "render" =>
          /\ InRange(temp_control, I(0), I(1))
          /\ InRange(intensity_control, Q(1, 5), I(2))
    /\ last_draw.kind = "render" =>
          /\ InRange(last_draw.uniforms.temp, I(0), I(1))
          /\ InRange(last_draw.uniforms.intensity, Q(1, 5), I(2))

\* render was called after T and Y were held long enough for both controls
\* to be cut back to their upper limits
C13_Witness ==
    /\ last_draw.kind = "render"
    /\ last_draw.uniforms.temp = I(1)
    /\ last_draw.uniforms.intensity = I(2)
    /\ time >= 2

\* C14: in every state of the main loop the entities are those that were
\* constructed, each with the vertex list, the vertex shader and the
\* fragment shader it was constructed with.
C14_MeshAndShadersFixed ==
    \E n \in 0..MaxVerts :
       \E hidden \in 0..n :
          /\ entities /= <<>>
          /\ entities[1].vertices = EntityMesh(n, hidden)
          /\ \E built \in {Scene(EntityMesh(n, hidden))} :
                /\ Len(entities) = Len(built)
                /\ \A i \in 1..Len(built) :
                      /\ entities[i].name = built[i].name
                      /\ entities[i].vertices = built[i].vertices
                      /\ entities[i].vshader = built[i].vshader
                      /\ entities[i].fshader = built[i].fshader

\* two frames were completed in which the orbits advanced, the ship was
\* steered away from where it was built, the camera followed it and the
\* entities were rendered
C14_Witness ==
    /\ pc = "loop_head" /\ time >= 2
    /\ last_draw.kind = "render"
    /\ \E i \in 1..Len(entities) :
          /\ entities[i].name = "ship"
          /\ entities[i].translation /= V3(0, 0, 0)
          /\ entities[i].forward /= V3(0, 0, 1)
          /\ camera.target = entities[i].translation
    /\ \E i \in 1..Len(entities) :
          /\ entities[i].motion.kind = "Orbit"
          /\ Len(entities[i].vertices) > 0
          /\ entities[i].translation /= V3(0, 0, 0)

----------------------------------------------------------------------------
(* MotionSpec: the motion update of main (main.rs 271-316) on entity lists  *)
(* in every order of parents and children                                   *)

MotionNames == <<"a", "b", "c">>

\* the motions an entity of the list may have
MotionChoices ==
    {Static}
    \cup {Orbit(V3(0, 0, -1), I(1), 1, ph) : ph \in {0, 1}}
    \cup {OrbitAround(parent, r, 1, 0) :
             parent \in {MotionNames[i] : i \in 1..Len(MotionNames)} \cup {"nobody"},
             r \in {I(0), I(2)}}

MotionInit ==
    /\ pc = "motion_update"
    /\ \E motions \in [1..Len(MotionNames) -> MotionChoices] :
          entities = [i \in 1..Len(MotionNames) |->
                         Entity_new(MotionNames[i], V3(i, i, 0), NoRotation, I(1), motions[i],
                                    <<>>, Identity, AlienShip, NoRotation, FALSE)]
    /\ time = 0
    /\ camera = [kind |-> "none"]
    /\ temp_control = Q(1, 10)
    /\ intensity_control = Q(1, 2)
    /\ view = Identity4
    /\ next_entity = 0
    /\ last_draw = [kind |-> "none"]
    /\ frame_log = <<>>
    /\ framebuffer = main_framebuffer(FALSE)
    /\ IdleFb /\ IdleTransform /\ IdleShader /\ IdleCamera

\* main.rs 271-316 in one frame
MotionUpdate ==
    /\ pc = "motion_update"
    /\ time < MaxTime
    /\ time' = time + 1
    /\ entities' = motion_pass2(motion_pass1(entities, time'), entities, 1, time')
    /\ UNCHANGED <<shader_in, shader_calls, camera_log, pc, framebuffer, camera, temp_control, intensity_control, view,
                   next_entity, last_draw, frame_log, fb_log, t_in, t_out>>

MotionNext == MotionUpdate

MotionSpec == MotionInit /\ [][MotionNext]_vars

\* (radius cos theta, 0, radius sin theta) for the motion m at time t
OrbitOffset(m, t) ==
    Vector3(QMul(m.radius, Cos4(m.phase + m.angular_speed * t)), I(0),
            QMul(m.radius, Sin4(m.phase + m.angular_speed * t)))

WorldAnchored(e) == e.motion.kind \in {"Static", "Orbit"}

\* C15: after the motion update of a frame every Orbit entity stands at its
\* centre plus the orbit offset of this frame, and every OrbitAround entity
\* whose parent is a Static or Orbit entity stands at the translation the
\* parent has after the same update plus its own offset (at the parent when
\* its radius is 0), wherever the parent is in the list.
C15_ParentsBeforeChildren ==
    (pc = "motion_update" /\ time > 0) =>
        \A i \in 1..Len(entities) :
            LET e == entities[i]
            IN  /\ e.motion.kind = "Orbit" =>
                      e.translation = V3Add(e.motion.center, OrbitOffset(e.motion, time))
                /\ e.motion.kind = "OrbitAround" =>
                      \A pi \in {index_by_name(entities, e.motion.parent)} \ {0} :
                         WorldAnchored(entities[pi]) =>
                            e.translation =
                                IF e.motion.radius = I(0)
                                THEN entities[pi].translation
                                ELSE V3Add(entities[pi].translation,
                                           OrbitOffset(e.motion, time))

\* a child listed before its orbiting parent and a child listed after its
\* parent, both away from where the parent was a frame earlier, and a child
\* of radius 0
C15_Witness ==
    /\ pc = "motion_update" /\ time >= 2
    /\ entities[1].motion.kind = "OrbitAround" /\ entities[1].motion.parent = "b"
    /\ entities[1].motion.radius /= I(0)
    /\ entities[2].motion.kind = "Orbit"
    /\ entities[3].motion.kind = "OrbitAround" /\ entities[3].motion.parent = "b"
    /\ entities[3].motion.radius = I(0)
    /\ entities[3].translation = entities[2].translation
    /\ entities[1].translation = V3Add(entities[2].translation,
                                       OrbitOffset(entities[1].motion, time))

----------------------------------------------------------------------------
(* ShaderSpec: the functions of shaders.rs called on their own.  The call   *)
(* under test and its arguments are drawn at the start; it is then called   *)
(* again and again, with calls of hash3 on another point in between.        *)

\* most calls followed
MaxCalls == 3
\* fbm is called directly with 0..MaxOctaves octaves
MaxOctaves == 2

\* the fragment shaders the program builds (entity.rs 259-363, main.rs 242)
ProgramFragmentShaders ==
    {Star, Strips(I(0)), AlienShip,
     Rocky(Vector3(I(0), Q(1, 2), I(1))),
     Rocky(Vector3(F32(8, 10), F32(8, 10), F32(8, 10))),
     Rocky(Vector3(F32(6, 10), F32(2, 10), I(0))),
     Solid(Vector3(F32(9, 10), F32(7, 10), F32(1, 10))),
     Solid(Vector3(Q(1, 2), F32(4, 10), I(0))),
     Solid(V3(1, 1, 1))}

\* the vertex shaders the program builds (entity.rs 258-363, main.rs 241)
ProgramVertexShaders ==
    {Identity, SolarFlare,
     DisplacePlanarY(F32(6, 100), I(6), 3, I(2), F32(55, 100), F32(6, 10))}

ShaderPoints == {V3(0, 0, 0), V3(0, 1, 0), Vector3(Q(1, 2), I(-2), Q(5, 4))}

ShaderFragments ==
    {Fragment(I(0), I(0), I(0), V3(0, 0, 0)), Fragment(I(1), I(0), Q(1, 2), V3(0, 0, 1)),
     Fragment(I(0), I(1), Q(-1, 4), Vector3(Q(1, 2), I(-2), Q(5, 4)))}

\* temp and intensity at the ends of the ranges main clamps them to
\* (main.rs 267-268)
ShaderUniforms ==
    {Uniforms(I(t), [x |-> Width, y |-> Height], c[1], c[2]) :
        t \in {0, 9}, c \in {<<I(0), Q(1, 5)>>, <<I(1), I(2)>>}}

\* arguments of temperature_to_rgb: below, at and between the stops of the
\* gradient, and above its last one
ShaderTemperatures == {Q(-1, 2), I(0), Q(1, 4), Q(1, 2), Q(3, 4), I(1), Q(3, 2)}

ShaderInputs ==
    {[fn |-> "fragment_shader", args |-> <<f, u, s>>] :
        f \in ShaderFragments, u \in ShaderUniforms, s \in ProgramFragmentShaders}
    \cup {[fn |-> "apply_vertex_shader", args |-> <<v, s, I(t)>>] :
        v \in ShaderPoints, s \in ProgramVertexShaders, t \in {0, 3}}
    \cup {[fn |-> "value_noise3", args |-> <<p>>] : p \in ShaderPoints}
    \cup {[fn |-> "hash3", args |-> <<p>>] : p \in ShaderPoints}
    \cup {[fn |-> "temperature_to_rgb", args |-> <<t>>] : t \in ShaderTemperatures}
    \cup {[fn |-> "fbm", args |-> <<p, o, lg[1], lg[2]>>] :
        p \in ShaderPoints, o \in 0..MaxOctaves,
        lg \in {<<I(2), Q(1, 2)>>, <<F32(24, 10), F32(55, 100)>>}}

ShaderInit ==
    /\ pc = "shader"
    /\ framebuffer = main_framebuffer(FALSE)
    /\ IdleFb /\ IdleMain /\ IdleTransform /\ IdleCamera
    /\ shader_in \in ShaderInputs
    /\ shader_calls = <<>>

ShaderCalled(fn, args, ret) ==
    /\ Len(shader_calls) < MaxCalls
    /\ shader_calls' = Append(shader_calls, [fn |-> fn, args |-> args, ret |-> ret])
    /\ UNCHANGED <<pc, framebuffer, mainVars, fb_log, t_in, t_out, shader_in, camera_log>>

CallFragmentShader ==
    /\ shader_in.fn = "fragment_shader"
    /\ \E a \in {shader_in.args} :
          ShaderCalled("fragment_shader", a, fragment_shader(a[1], a[2], a[3]))

CallApplyVertexShader ==
    /\ shader_in.fn = "apply_vertex_shader"
    /\ \E a \in {shader_in.args} :
          ShaderCalled("apply_vertex_shader", a, apply_vertex_shader(a[1], a[2], a[3]))

CallValueNoise3 ==
    /\ shader_in.fn = "value_noise3"
    /\ \E a \in {shader_in.args} : ShaderCalled("value_noise3", a, value_noise3(a[1]))

CallFbm ==
    /\ shader_in.fn = "fbm"
    /\ \E a \in {shader_in.args} : ShaderCalled("fbm", a, fbm(a[1], a[2], a[3], a[4]))

CallHash3 ==
    /\ shader_in.fn = "hash3"
    /\ \E a \in {shader_in.args} : ShaderCalled("hash3", a, hash3(a[1]))

CallTemperatureToRgb ==
    /\ shader_in.fn = "temperature_to_rgb"
    /\ \E a \in {shader_in.args} :
          ShaderCalled("temperature_to_rgb", a, temperature_to_rgb(a[1]))

\* a call between two calls under test
CallBetween ==
    /\ shader_calls /= <<>>
    /\ \E a \in {<<V3(3, 1, 2)>>} : ShaderCalled("hash3", a, hash3(a[1]))

ShaderNext ==
    \/ CallFragmentShader
    \/ CallApplyVertexShader
    \/ CallValueNoise3
    \/ CallFbm
    \/ CallHash3
    \/ CallTemperatureToRgb
    \/ CallBetween

ShaderSpec == ShaderInit /\ [][ShaderNext]_vars


----------------------------------------------------------------------------
(* Claims about the shader functions *)

FragmentShaderCalls == {k \in 1..Len(shader_calls) : shader_calls[k].fn = "fragment_shader"}

\* C16: whichever of the five fragment-shader variants the program builds is
\* called, on whichever fragment, with temp in [0, 1] and intensity in
\* [0.2, 2.0], each of the three channels it returns lies in [0, 1].
C16_ChannelsInUnitRange ==
    \A k \in FragmentShaderCalls :
        /\ InRange(shader_calls[k].ret.x, I(0), I(1))
        /\ InRange(shader_calls[k].ret.y, I(0), I(1))
        /\ InRange(shader_calls[k].ret.z, I(0), I(1))

\* the star shader at full intensity returns a channel at the upper limit
C16_Witness ==
    \E k \in FragmentShaderCalls :
        /\ shader_calls[k].args[3] = Star
        /\ shader_calls[k].args[2].intensity = I(2)
        /\ shader_calls[k].ret.x = I(1)

C18_IdentityReturnsInput ==
    \A k \in 1..Len(shader_calls) :
        (shader_calls[k].fn = "apply_vertex_shader" /\ shader_calls[k].args[2] = Identity)
            => shader_calls[k].ret = shader_calls[k].args[1]

\* the Identity variant called on a position off the whole units, at a time
\* other than 0
C18_Witness ==
    \E k \in 1..Len(shader_calls) :
        /\ shader_calls[k].fn = "apply_vertex_shader"
        /\ shader_calls[k].args[2] = Identity
        /\ shader_calls[k].args[1].x = Q(1, 2)
        /\ shader_calls[k].args[3] = I(3)
        /\ shader_calls[k].ret = shader_calls[k].args[1]

\* amplitude and frequency of octave k, counted from 0
RECURSIVE OctaveAmp(_, _)
OctaveAmp(k, gain) == IF k = 0 THEN Q(1, 2) ELSE FMul(OctaveAmp(k - 1, gain), gain)
RECURSIVE OctaveFreq(_, _)
OctaveFreq(k, lacunarity) ==
    IF k = 0 THEN I(1) ELSE FMul(OctaveFreq(k - 1, lacunarity), lacunarity)

\* the first n octaves of value noise at p, added up from octave 0
RECURSIVE OctaveSum(_, _, _, _)
OctaveSum(p, n, lacunarity, gain) ==
    IF n = 0 THEN I(0)
    ELSE QAdd(OctaveSum(p, n - 1, lacunarity, gain),
              FMul(OctaveAmp(n - 1, gain),
                   value_noise3(FScale(p, OctaveFreq(n - 1, lacunarity)))))

FbmCalls == {k \in 1..Len(shader_calls) : shader_calls[k].fn = "fbm"}

\* C19: fbm called with 0 octaves returns exactly 0 whatever p, lacunarity
\* and gain are; called with n >= 1 octaves it returns the sum over octaves
\* k = 0..n-1 of amp_k * value_noise3(p * freq_k), where amp_0 = 0.5,
\* freq_0 = 1, amp_(k+1) = amp_k * gain and freq_(k+1) = freq_k * lacunarity.
C19_FbmIsOctaveSum ==
    \A k \in FbmCalls :
        \E a \in {shader_calls[k].args} :
            /\ a[2] = 0 => shader_calls[k].ret = I(0)
            /\ a[2] >= 1 => shader_calls[k].ret = OctaveSum(a[1], a[2], a[3], a[4])

\* fbm called with two octaves or more, a lacunarity other than 2 and a
\* nonzero result to which the second octave contributes
C19_Witness ==
    \E k \in FbmCalls :
        \E a \in {shader_calls[k].args} :
            /\ a[2] >= 2
            /\ a[3] /= I(2)
            /\ shader_calls[k].ret /= I(0)
            /\ shader_calls[k].ret /= OctaveSum(a[1], 1, a[3], a[4])

----------------------------------------------------------------------------
(* Claim on triangles without area, checked under Spec *)

\* twice the signed area of assembled triangle k of the last draw call, on
\* the screen
SignedArea(k) ==
    LET t == last_draw.triangles[k]
    IN  EdgeFunction(t[1], t[2], t[3].x, t[3].y)

Degenerate == {k \in 1..Len(last_draw.triangles) : SignedArea(k) = I(0)}

\* the last framebuffer call of the loop was the render call of last_draw
JustRendered == frame_log /= <<>> /\ frame_log[Len(frame_log)] = "render"

\* C20: a triangle whose three screen vertices have zero signed area gives
\* no fragment: the fragments of a draw call are those of its other
\* triangles, and a render call all of whose triangles are such returns
\* with every pixel of the framebuffer as it was before the call.
C20_DegenerateDrawsNothing ==
    Assembles =>
        /\ \A k \in Degenerate : Rasterized(k) = <<>>
        /\ last_draw.fragments =
               Flatten([k \in 1..Len(last_draw.triangles) |->
                           IF k \in Degenerate THEN <<>> ELSE Rasterized(k)])
        /\ (last_draw.kind = "render" /\ Degenerate = 1..Len(last_draw.triangles)) =>
               /\ last_draw.fragments = <<>>
               /\ JustRendered => framebuffer = last_draw.before

\* render assembled the triangle of the orbit ring, whose three screen
\* vertices are distinct points of one line, and got no fragment for it
C20_Witness ==
    /\ last_draw.kind = "render"
    /\ Len(last_draw.triangles) = 1
    /\ Degenerate = {1}
    /\ last_draw.triangles[1][1] /= last_draw.triangles[1][2]
    /\ last_draw.triangles[1][2] /= last_draw.triangles[1][3]
    /\ last_draw.fragments = <<>>
    /\ JustRendered
    /\ framebuffer = last_draw.before

\* the stops of the gradient: shaders.rs 84 and 88 call (1, 0.2, 0) red,
\* (1, 1, 0) yellow and (1, 1, 1) white
GradientRed == Vector3(I(1), F32(2, 10), I(0))
GradientYellow == V3(1, 1, 0)
GradientWhite == V3(1, 1, 1)

\* the point at k of the way from colour a to colour b
GradientMix(a, b, k) == Vector3(lerp(a.x, b.x, k), lerp(a.y, b.y, k), lerp(a.z, b.z, k))

\* the three-stop gradient at t, with t clamped to [0, 1] first
Gradient(t) ==
    With(QClamp(t, I(0), I(1)), LAMBDA c :
        IF QLt(c, Q(1, 2))
        THEN GradientMix(GradientRed, GradientYellow, FDiv(c, Q(1, 2)))
        ELSE GradientMix(GradientYellow, GradientWhite, FDiv(QSub(c, Q(1, 2)), Q(1, 2))))

TemperatureCalls ==
    {k \in 1..Len(shader_calls) : shader_calls[k].fn = "temperature_to_rgb"}

\* C21: temperature_to_rgb clamps t to [0, 1] and returns the point of the
\* gradient with the stops red at t = 0, yellow at t = 0.5 and white at
\* t = 1, interpolated linearly between neighbouring stops.
C21_ThreeStopGradient ==
    \A k \in TemperatureCalls :
        shader_calls[k].ret = Gradient(shader_calls[k].args[1])

\* temperature_to_rgb called at the last stop returned a colour whose blue
\* channel is 0.3
C21_Witness ==
    \E k \in TemperatureCalls :
        /\ shader_calls[k].args[1] = I(1)
        /\ shader_calls[k].ret = Vector3(I(1), I(1), F32(3, 10))
        /\ shader_calls[k].ret /= GradientWhite

----------------------------------------------------------------------------
(* The colour and the depth of a pixel come from one fragment, under FbSpec *)

\* the calls of the log that changed pixel p
ChangedAt(p) == {i \in CallsAt(p) : fb_log[i].changed}
LastOf(S) == CHOOSE i \in S : \A j \in S : j <= i

\* C22: every set_pixel of render, draw_sky_sphere, draw_sky_stars and
\* draw_shooting_star comes directly after the set_current_color of its own
\* fragment, so the current colour after a write is the colour of the
\* fragment written, a write that changed a pixel left there the colour and
\* the depth of its fragment, and every pixel holds the colour of the very
\* fragment whose depth it holds (the cleared cell when no write changed it).
C22_ColourOfStoredFragment ==
    /\ fb_log /= <<>> => framebuffer.current_color = fb_log[Len(fb_log)].color
    /\ \A i \in LogIndices : fb_log[i].changed => fb_log[i].post = Sent(fb_log[i])
    /\ pc /= "fb_new" =>
          \A p \in Pixels(Width, Height) :
              Cell(framebuffer, p[1], p[2]) =
                  IF ChangedAt(p) = {}
                  THEN [color |-> framebuffer.background_color, depth |-> Far]
                  ELSE Sent(fb_log[LastOf(ChangedAt(p))])

\* a pixel took a fragment of one colour, then a nearer fragment of another
\* colour, then was offered a farther fragment of the first colour, and holds
\* the colour and depth of the second
C22_Witness ==
    /\ Len(fb_log) = 3
    /\ InArrays(fb_log[1]) /\ SamePixel(fb_log[1], fb_log[2]) /\ SamePixel(fb_log[2], fb_log[3])
    /\ fb_log[1].changed /\ fb_log[2].changed /\ ~fb_log[3].changed
    /\ fb_log[1].color /= fb_log[2].color /\ fb_log[3].color = fb_log[1].color
    /\ QLt(fb_log[2].depth, fb_log[3].depth)
    /\ Cell(framebuffer, fb_log[1].x, fb_log[1].y) = Sent(fb_log[2])
    /\ framebuffer.current_color = fb_log[3].color

----------------------------------------------------------------------------
(* transform against transform_with_basis, under TransformSpec *)

\* the model matrix of the rotation placement and of the basis placement of
\* the call's arguments
RotationModel == create_model_matrix(t_in.translation, t_in.scale, t_in.rotation)
BasisModel ==
    LET r == V3Scale(t_in.right, t_in.scale)
        u == V3Scale(t_in.up, t_in.scale)
        f == V3Scale(t_in.forward, t_in.scale)
    IN  MatrixOfColumns(<<r.x, r.y, r.z, I(0)>>, <<u.x, u.y, u.z, I(0)>>,
                        <<f.x, f.y, f.z, I(0)>>,
                        <<t_in.translation.x, t_in.translation.y, t_in.translation.z, I(1)>>)

\* C23: when the rotation placement and the basis placement of a call give
\* equal model matrices, transform and transform_with_basis return the same
\* for the same vertex, view, projection and viewport: None in the same
\* cases and the same Some(screen_x, screen_y, ndc_z) otherwise.
C23_SameFunctionOfModel ==
    (t_out.fn /= "none" /\ RotationModel = BasisModel) =>
        /\ t_out.ret = transform(t_in.vertex, t_in.translation, t_in.scale, t_in.rotation,
                                 t_in.view, t_in.projection, t_in.viewport)
        /\ t_out.ret = transform_with_basis(t_in.vertex, t_in.translation, t_in.scale,
                                            t_in.right, t_in.up, t_in.forward,
                                            t_in.view, t_in.projection, t_in.viewport)

\* transform_with_basis returned a screen point for a vertex off the axes,
\* placed by a turned basis at half scale that a quarter turn of yaw builds too
C23_Witness ==
    /\ t_out.fn = "transform_with_basis"
    /\ RotationModel = BasisModel
    /\ t_in.rotation.y = 1 /\ t_in.right = V3(0, 0, -1) /\ t_in.scale = Q(1, 2)
    /\ t_in.vertex.x /= I(0) /\ t_in.vertex.z /= I(0)
    /\ t_out.ret.some

----------------------------------------------------------------------------
(* Parents that orbit a parent themselves, under MotionSpec *)

\* the entities that orbit an entity of the list
Children == {i \in 1..Len(entities) :
                /\ entities[i].motion.kind = "OrbitAround"
                /\ index_by_name(entities, entities[i].motion.parent) /= 0}
ParentOf(i) == index_by_name(entities, entities[i].motion.parent)
\* pass 2 moves the parent of child i after it has placed the child (or the
\* child is its own parent)
MovedLater(i) == ParentOf(i) \in Children /\ ParentOf(i) >= i
Placed(base, mo, t) == IF mo.radius = I(0) THEN base ELSE V3Add(base, OrbitOffset(mo, t))

\* C24 as stated: after the motion update every OrbitAround entity whose
\* parent exists stands at the translation its parent has after the same
\* update plus its own offset, also when the parent is an OrbitAround entity
\* and in every order of the list.
C24_AsStated ==
    (pc = "motion_update" /\ time > 0) =>
        \A i \in Children :
            entities[i].translation =
                Placed(entities[ParentOf(i)].translation, entities[i].motion, time)

\* C24: the motion update of a frame places every OrbitAround entity whose
\* parent exists at its own offset from the parent's translation of the same
\* frame when the parent is Static, Orbit, without a parent of its own or
\* listed before the child, and from the translation the parent had before
\* the update when the parent is an OrbitAround entity with a parent, listed
\* after the child (or the child itself); an OrbitAround entity whose parent
\* name matches no entity keeps its translation.
C24_ParentOfFrameUnlessMovedLater ==
    [][\A i \in 1..Len(entities) :
          entities[i].motion.kind = "OrbitAround" =>
              entities'[i].translation =
                  IF i \notin Children THEN entities[i].translation
                  ELSE IF MovedLater(i)
                       THEN Placed(entities[ParentOf(i)].translation, entities[i].motion, time')
                       ELSE Placed(entities'[ParentOf(i)].translation, entities[i].motion,
                                   time')]_vars

\* after the second update the first entity orbits the second, which orbits
\* the third, an Orbit entity: the second stands at its offset from the
\* third, the first away from its offset from the second
C24_Witness ==
    /\ pc = "motion_update" /\ time = 2
    /\ Children = {1, 2} /\ ParentOf(1) = 2 /\ ParentOf(2) = 3
    /\ entities[3].motion.kind = "Orbit"
    /\ entities[1].motion.radius /= I(0) /\ entities[2].motion.radius /= I(0)
    /\ entities[2].translation =
           Placed(entities[3].translation, entities[2].motion, time)
    /\ entities[1].translation /=
           Placed(entities[2].translation, entities[1].motion, time)

----------------------------------------------------------------------------
(* The order of the steps of a frame, under Spec *)

DrawingStatements == {"draw_sky_sphere", "draw_sky_stars", "draw_shooting_star", "render"}

\* C25: in every frame the entity motion update, the ship's input, the
\* camera's zoom and follow_ship and the computation of the view matrix come
\* in this order before any drawing: entities, camera and view matrix change
\* only in the update, before the first draw call of the frame; from then on
\* the camera's target is the ship's translation after the frame's input,
\* its eye is placed by follow_ship at the distance after the zoom, the view
\* matrix is that of this camera, every orbiting entity stands where this
\* frame's time puts it, and every draw call uses this view matrix and the
\* entity's translation of this frame.
C25_UpdateThenViewThenDraw ==
    /\ [][(entities' /= entities \/ camera' /= camera \/ view' /= view) =>
             (pc = "update" /\ frame_log = <<"clear">> /\ pc' \in DrawingStatements)]_vars
    /\ [](time > 0 =>
            /\ \A s \in {ShipIndex(entities)} \ {0} :
                  /\ camera.target = entities[s].translation
                  /\ camera = follow_ship(camera, entities[s].translation,
                                          entities[s].right, entities[s].up)
            /\ view = get_view_matrix(camera)
            /\ \A i \in 1..Len(entities) :
                  /\ entities[i].motion.kind = "Orbit" =>
                        entities[i].translation =
                            V3Add(entities[i].motion.center,
                                  OrbitOffset(entities[i].motion, time))
                  /\ i \in Children =>
                        entities[i].translation =
                            Placed(entities[ParentOf(i)].translation, entities[i].motion, time)
            /\ (pc \in DrawingStatements \ {"draw_sky_sphere"}
                    /\ last_draw.kind = "draw_sky_sphere") => last_draw.view = view
            /\ JustRendered =>
                  /\ last_draw.kind = "render"
                  /\ last_draw.view = view
                  /\ last_draw.translation = entities[next_entity - 1].translation)

\* in the second frame the keys moved the ship and zoomed the camera in, the
\* camera looks at the ship where the keys left it, and the ship has been
\* rendered there
C25_Witness ==
    /\ time = 2 /\ JustRendered /\ pc = "swap_buffers"
    /\ entities[next_entity - 1].name = "ship"
    /\ last_draw.translation /= V3(0, 0, 0)
    /\ last_draw.translation = camera.target
    /\ camera.distance /= I(2)
    /\ last_draw.view = get_view_matrix(camera)

----------------------------------------------------------------------------
(* The rotation an entity is rendered with, under Spec *)

\* the yaw that faces entity e along its orbit at time t
TangentYaw(e, t) ==
    IF e.face_tangent /\ e.motion.kind \in {"Orbit", "OrbitAround"}
    THEN -(e.motion.phase + e.motion.angular_speed * t)
    ELSE 0

\* C26: drawing changes no entity; the rotation handed to render is the
\* entity's stored rotation plus spin * time, plus the yaw -theta when the
\* entity faces along its orbit, and is not stored: every entity but the
\* ship keeps the rotation it was constructed with in every frame, so the
\* spin does not add up from frame to frame.
C26_RotationIsLocal ==
    /\ [][(pc \in DrawingStatements) => (entities' = entities)]_vars
    /\ [](/\ \A i \in 1..Len(entities) :
                entities[i].name /= "ship" =>
                    /\ entities[i].rotation = Scene(<<>>)[i].rotation
                    /\ entities[i].spin = Scene(<<>>)[i].spin
          /\ JustRendered =>
                \A e \in {entities[next_entity - 1]} :
                    last_draw.rotation =
                        [x |-> e.rotation.x + e.spin.x * time,
                         y |-> e.rotation.y + TangentYaw(e, time) + e.spin.y * time,
                         z |-> e.rotation.z + e.spin.z * time])

\* in the second frame the spinning entity was rendered turned by twice its
\* spin, having been rendered turned by its spin in the first, and its
\* stored rotation is still zero
C26_Witness ==
    /\ time = 2 /\ JustRendered
    /\ entities[next_entity - 1].name = "earth"
    /\ entities[next_entity - 1].spin.y = 1
    /\ entities[next_entity - 1].rotation = NoRotation
    /\ last_draw.rotation = [x |-> 0, y |-> 2, z |-> 0]

----------------------------------------------------------------------------
(* CameraSpec: the camera of main under any sequence of zoom_in, zoom_out   *)
(* and follow_ship calls                                                    *)

\* most calls followed
MaxCameraCalls == 5

\* where the ship may be and how it may be turned when the camera follows
\* it: the basis it is built with and the basis after a quarter turn of yaw
ShipPositions == {V3(0, 0, 0), V3(1, 0, -2)}
ShipBases ==
    {[right |-> V3(1, 0, 0), up |-> V3(0, 1, 0)],
     [right |-> V3(0, 0, -1), up |-> V3(0, 1, 0)]}

\* main.rs 249-252, scaled as the scene is
CameraInit ==
    /\ pc = "camera_calls"
    /\ camera = Camera_new(V3(0, 0, 2), V3(0, 0, 0))
    /\ entities = <<>>
    /\ temp_control = Q(1, 10)
    /\ intensity_control = Q(1, 2)
    /\ time = 0
    /\ view = Identity4
    /\ next_entity = 0
    /\ last_draw = [kind |-> "none"]
    /\ frame_log = <<>>
    /\ framebuffer = main_framebuffer(FALSE)
    /\ IdleFb /\ IdleTransform /\ IdleShader /\ IdleCamera

CameraCalled(fn, args) ==
    /\ pc = "camera_calls"
    /\ Len(camera_log) < MaxCameraCalls
    /\ camera_log' = Append(camera_log, [fn |-> fn, args |-> args,
                                          before |-> camera, after |-> camera'])
    /\ UNCHANGED <<pc, framebuffer, entities, temp_control, intensity_control, time, view,
                   next_entity, last_draw, frame_log, fb_log, t_in, t_out,
                   shader_in, shader_calls>>

CallZoomIn == camera' = zoom_in(camera) /\ CameraCalled("zoom_in", <<>>)

CallZoomOut == camera' = zoom_out(camera) /\ CameraCalled("zoom_out", <<>>)

CallFollowShip ==
    \E ship_pos \in ShipPositions, b \in ShipBases :
        /\ camera' = follow_ship(camera, ship_pos, b.right, b.up)
        /\ CameraCalled("follow_ship", <<ship_pos, b.right, b.up>>)

CameraNext == CallZoomIn \/ CallZoomOut \/ CallFollowShip

CameraSpec == CameraInit /\ [][CameraNext]_vars

\* the least distance zoom_in leaves (camera.rs 121-122)
MinDistance == Q(1, 2)

\* C27: the distance of a camera that starts at 0.5 or more is at least 0.5
\* after any sequence of zoom_in, zoom_out and follow_ship calls: zoom_in
\* lowers it by zoom_speed but to no less than 0.5, zoom_out raises it by
\* zoom_speed whatever it was, and follow_ship sets the target to the ship
\* position and leaves distance, offset_dir_local and zoom_speed as they were.
C27_DistanceFloor ==
    /\ QLe(MinDistance, camera.distance)
    /\ \A k \in 1..Len(camera_log) :
          LET c == camera_log[k]
          IN  /\ c.fn = "zoom_in" =>
                    c.after = [c.before EXCEPT !.distance =
                                  QMax(QSub(c.before.distance, c.before.zoom_speed),
                                       MinDistance)]
              /\ c.fn = "zoom_out" =>
                    c.after = [c.before EXCEPT !.distance =
                                  QAdd(c.before.distance, c.before.zoom_speed)]
              /\ c.fn = "follow_ship" =>
                    /\ c.after.target = c.args[1]
                    /\ c.after.distance = c.before.distance
                    /\ c.after.offset_dir_local = c.before.offset_dir_local
                    /\ c.after.zoom_speed = c.before.zoom_speed

\* the camera was zoomed in down to 0.5, zoomed in once more, and then
\* followed the ship to another place
C27_Witness ==
    /\ Len(camera_log) = 5
    /\ \A k \in 1..4 : camera_log[k].fn = "zoom_in"
    /\ camera_log[3].before.distance = I(1) /\ camera_log[3].after.distance = MinDistance
    /\ camera_log[4].after.distance = MinDistance
    /\ camera_log[5].fn = "follow_ship"
    /\ camera.target = V3(1, 0, -2) /\ camera.target /= camera_log[5].before.target
    /\ camera.distance = MinDistance

----------------------------------------------------------------------------
(* SkySpec: draw_sky_stars and draw_shooting_star, frame after frame, on a  *)
(* framebuffer that holds a whole star block and a whole trail              *)

SkyWidth == 26
SkyHeight == 3
\* the frames followed, one second apart: the trail's cycle of 7.5 s ends
\* and the next begins
MaxSkyTime == 8

SkyProjection == create_projection_matrix(I(1), Q(SkyWidth, SkyHeight), I(1), I(3))
SkyViewport == create_viewport_matrix(I(0), I(0), I(SkyWidth), I(SkyHeight))

\* views of the frame: the camera moved so that the star straight ahead
\* falls in the middle, on an edge or in a corner of the screen or to the
\* side of it, and the camera turned to the star behind
SkyViews ==
    {MatrixOfColumns(<<I(1), I(0), I(0), I(0)>>, <<I(0), I(1), I(0), I(0)>>,
                     <<I(0), I(0), I(1), I(0)>>,
                     <<QMul(I(nx), QMul(StarRadius, Q(SkyWidth, SkyHeight))),
                       QMul(I(ny), StarRadius), I(0), I(1)>>) :
         nx \in {-1, 0, 1, 2}, ny \in {-1, 0, 1}}
    \cup {RotationY(2)}

\* values the sine hashes of draw_shooting_star may give: level trails
\* that start near the left edge and near the right edge, and a sloping one
SkyShootingHashes ==
    {[sx |-> Q(1, 5), sy |-> Q(1, 2), dir |-> [x |-> I(1), y |-> I(0)]],
     [sx |-> Q(9, 10), sy |-> Q(1, 2), dir |-> [x |-> I(1), y |-> I(0)]],
     [sx |-> Q(5, 8), sy |-> Q(3, 8), dir |-> [x |-> Q(4, 5), y |-> Q(3, 5)]]}

SkyInit ==
    /\ pc = "sky_frame"
    /\ framebuffer =
           set_background_color(Framebuffer_new(SkyWidth, SkyHeight, BLACK, FALSE), Background)
    /\ IdleMain /\ IdleFb /\ IdleTransform /\ IdleShader /\ IdleCamera

SkyUnchanged ==
    UNCHANGED <<entities, camera, temp_control, intensity_control, next_entity, frame_log,
                fb_log, t_in, t_out, shader_in, shader_calls, camera_log>>

\* main.rs 259-329: the frame is cleared, the time read and the view computed
SkyFrame ==
    /\ pc = "sky_frame"
    /\ time < MaxSkyTime
    /\ time' = time + 1
    /\ view' \in SkyViews
    /\ framebuffer' = clear(framebuffer)
    /\ pc' = "draw_sky_stars"
    /\ UNCHANGED last_draw
    /\ SkyUnchanged

\* main.rs 332
SkyDrawStars ==
    /\ pc = "draw_sky_stars"
    /\ framebuffer' = draw_sky_stars(framebuffer, Skybox_new, view, SkyViewport,
                                     SkyProjection, StarRadius, 1)
    /\ last_draw' = [kind |-> "draw_sky_stars", before |-> framebuffer]
    /\ pc' = "draw_shooting_star"
    /\ UNCHANGED <<time, view>>
    /\ SkyUnchanged

\* main.rs 333
SkyDrawShootingStar ==
    /\ pc = "draw_shooting_star"
    /\ \E hash \in SkyShootingHashes :
          framebuffer' = draw_shooting_star(framebuffer, I(time), SkyWidth, SkyHeight, hash)
    /\ last_draw' = [kind |-> "draw_shooting_star", before |-> framebuffer]
    /\ pc' = "sky_frame"
    /\ UNCHANGED <<time, view>>
    /\ SkyUnchanged

SkyNext == SkyFrame \/ SkyDrawStars \/ SkyDrawShootingStar

SkySpec == SkyInit /\ [][SkyNext]_vars

\* the set_pixel calls of the draw call just made
DrawnCalls ==
    SubSeq(framebuffer.calls, Len(last_draw.before.calls) + 1, Len(framebuffer.calls))
StarsJustDrawn == pc = "draw_shooting_star" /\ last_draw.kind = "draw_sky_stars"
TrailJustDrawn == pc = "sky_frame" /\ last_draw.kind = "draw_shooting_star"
InFramebuffer(c) ==
    c.x >= 0 /\ c.x < framebuffer.width /\ c.y >= 0 /\ c.y < framebuffer.height

\* where transform puts star s on the screen in this frame
StarScreen(s) ==
    transform(V3Scale(Skybox_new.star_dirs[s], StarRadius), V3(0, 0, 0), I(1),
              [x |-> 0, y |-> 0, z |-> 0], view, SkyProjection, SkyViewport)
VisibleStars == {s \in 1..Len(Skybox_new.star_dirs) : StarScreen(s).some}
\* call c writes a pixel of the 3x3 block of star s at the star's depth
InBlockOf(c, s) ==
    \A screen \in {StarScreen(s).v} :
        /\ Abs(c.x - AsI32(screen.x)) <= 1
        /\ Abs(c.y - AsI32(screen.y)) <= 1
        /\ c.depth = QSub(screen.z, Q(1, 1000))
\* the phase of the trail's cycle at the time of the frame
CyclePhase == QDiv(QRem(I(time), Q(15, 2)), Q(15, 2))
Distinct(calls) ==
    \A i, j \in 1..Len(calls) :
        (calls[i].x = calls[j].x /\ calls[i].y = calls[j].y) => i = j

\* C28: draw_sky_stars and draw_shooting_star call set_pixel only with
\* 0 <= x < width and 0 <= y < height; the shooting star makes at most 25
\* writes in a frame, all at depth 0.8, and none when the phase of its
\* cycle is above 0.8; every write of draw_sky_stars lies in the 3x3 block
\* of a visible star at depth screen.z - 0.001, no pixel is written twice
\* for one star and there are at most 9 writes for each visible star.
C28_SkyWritesInRange ==
    /\ StarsJustDrawn =>
          /\ \A k \in 1..Len(DrawnCalls) :
                /\ InFramebuffer(DrawnCalls[k])
                /\ \E s \in VisibleStars : InBlockOf(DrawnCalls[k], s)
          /\ Len(DrawnCalls) <= 9 * Cardinality(VisibleStars)
          /\ Cardinality(VisibleStars) = 1 => Distinct(DrawnCalls)
    /\ TrailJustDrawn =>
          /\ \A k \in 1..Len(DrawnCalls) :
                /\ InFramebuffer(DrawnCalls[k])
                /\ DrawnCalls[k].depth = Q(4, 5)
          /\ Len(DrawnCalls) <= ShootLength
          /\ QLt(Q(4, 5), CyclePhase) => DrawnCalls = <<>>

\* in one frame the star in the middle of the screen took all nine pixels
\* of its block and the trail all 25 of its pixels
C28_Witness ==
    /\ TrailJustDrawn
    /\ Len(last_draw.before.calls) = 9
    /\ Len(DrawnCalls) = ShootLength
    /\ Distinct(DrawnCalls)

====
